---- MODULE Spec2Model ----
(***************************************************************************)
(* bracoxide: brace expansion.                                             *)
(*                                                                         *)
(*   Tokenizer::new / Tokenizer::tokenize   (src/src/tokenizer.rs)         *)
(*   Parser::parse and its helpers          (src/src/parser.rs)            *)
(*   tokenize                               (src/src/lib.rs)               *)
(*   expand                                 (called by src/src/main.rs)    *)
(*                                                                         *)
(* A string is a sequence of one-character strings; positions are the      *)
(* 0-based character positions of the source, so the character at position *)
(* i of content is content[i + 1].                                         *)
(***************************************************************************)
EXTENDS Integers, Sequences, FiniteSets, TLC

VARIABLES
    content,      \* Tokenizer.content / the argument of lib.rs tokenize
    pc,           \* which call of the pipeline runs next
    iter,         \* position of the next character the scan reads
    state,        \* Tokenizer.state
    text_cut,     \* Tokenizer.text_cut   <<start, length>>
    number_cut,   \* Tokenizer.number_cut <<start, length>>
    count,        \* Tokenizer.count      <<opening, closing>>
    tokens,       \* Tokenizer.tokens     position -> TokenKind
    inserted,     \* the positions given to insert_token, in call order
    tokResult,    \* what Tokenizer::new / Tokenizer::tokenize returned
    parseResult,  \* what Parser::parse returned
    expandResult, \* what expand returned
    is_escape,    \* lib.rs tokenize: is_escape
    buffers,      \* lib.rs tokenize: buffers <<text, number>>
    liter,        \* lib.rs tokenize: the position iter has reached
    lcount,       \* lib.rs tokenize: count <<opening, closing>>
    ltokens,      \* lib.rs tokenize: tokens (a Vec)
    lResult,      \* what lib.rs tokenize returned
    testFragment, \* the fragment a test hands to a method of the Parser
    stack         \* the fragments of the calls of Parser::reparse to come

vars == <<content, pc, iter, state, text_cut, number_cut, count, tokens,
          inserted, tokResult, parseResult, expandResult,
          is_escape, buffers, liter, lcount, ltokens, lResult,
          testFragment, stack>>

tokVars == <<state, text_cut, number_cut, count, tokens, inserted>>
libVars == <<is_escape, buffers, liter, lcount, ltokens>>

(***************************************************************************)
(* Bounds of the model.                                                    *)
(***************************************************************************)
\* every string over Sigma of at most this many characters is an input
MaxLen == 4
\* range bounds "{m..n}" are drawn with at most this many digits each
MaxDigits == 2
\* generated patterns P{I1,...,In}S have at most this many items
MaxItems == 3
\* a token map written by hand holds at most this many tokens
MaxTokens == 3

(***************************************************************************)
(* Characters.                                                             *)
(***************************************************************************)
Digits == {"0", "1", "2", "3", "4", "5", "6", "7", "8", "9"}
IsDigit(c) == c \in Digits

\* one character of every class the scanners distinguish
Sigma == {"{", "}", ",", ".", "\\", "1", "a"}

RECURSIVE Concat(_)
\* the concatenation of a sequence of strings
Concat(ss) == IF ss = <<>> THEN <<>> ELSE Head(ss) \o Concat(Tail(ss))

RECURSIVE Join(_, _)
\* the strings of ss with sep between neighbours
Join(ss, sep) ==
    IF ss = <<>> THEN <<>>
    ELSE IF Len(ss) = 1 THEN ss[1]
    ELSE ss[1] \o sep \o Join(Tail(ss), sep)

(***************************************************************************)
(* TokenKind (tokenizer.rs).                                               *)
(***************************************************************************)
OpeningBracket == [kind |-> "OpeningBracket", l |-> 0]
ClosingBracket == [kind |-> "ClosingBracket", l |-> 0]
Comma == [kind |-> "Comma", l |-> 0]
Range == [kind |-> "Range", l |-> 0]
Text(l) == [kind |-> "Text", l |-> l]
Number(l) == [kind |-> "Number", l |-> l]
Empty(l) == [kind |-> "Empty", l |-> l]

\* get_length counting the two dots of a Range as one character
get_length_One(k) ==
    IF k.kind \in {"Empty", "Number", "Text"} THEN k.l ELSE 1

get_length(k) ==
    IF k.kind \in {"Empty", "Number", "Text"} THEN k.l
    ELSE IF k.kind = "Range" THEN 2
    ELSE 1

NoTokenMap == [p \in {} |-> Comma]

(***************************************************************************)
(* Tokenizer (tokenizer.rs).  The helpers take and return the fields of    *)
(* the struct as a record.                                                 *)
(***************************************************************************)
Self ==
    [state |-> state, text_cut |-> text_cut, number_cut |-> number_cut,
     count |-> count, tokens |-> tokens, inserted |-> inserted]

\* HashMap::insert: a later insert at the same position replaces the token
insert_token(t, position, kind) ==
    [t EXCEPT !.tokens = [p \in (DOMAIN t.tokens) \cup {position} |->
                              IF p = position THEN kind ELSE t.tokens[p]],
              !.inserted = Append(t.inserted, position)]

tokenize_number(t) ==
    IF t.number_cut[2] > 0
    THEN [insert_token(t, t.number_cut[1], Number(t.number_cut[2]))
              EXCEPT !.number_cut = <<0, 0>>]
    ELSE t

tokenize_text(t) ==
    IF t.text_cut[2] > 0
    THEN [insert_token(t, t.text_cut[1], Text(t.text_cut[2]))
              EXCEPT !.text_cut = <<0, 0>>]
    ELSE t

tokenize_buffers(t) == tokenize_number(tokenize_text(t))

text_start(t, position) ==
    [tokenize_number(t) EXCEPT !.text_cut = <<position, 1>>, !.state = "Text"]

\* number_start without the flush of the text buffer
number_start_NoFlush(t, position) ==
    [t EXCEPT !.number_cut = <<position, 1>>, !.state = "Number"]

number_start(t, position) ==
    [tokenize_text(t) EXCEPT !.number_cut = <<position, 1>>, !.state = "Number"]

insert_opening(t, position) ==
    insert_token([t EXCEPT !.count = <<t.count[1] + 1, t.count[2]>>,
                           !.state = "Opening"],
                 position, OpeningBracket)

insert_closing(t, position) ==
    insert_token([t EXCEPT !.count = <<t.count[1], t.count[2] + 1>>,
                           !.state = "Closing"],
                 position, ClosingBracket)

\* the character at position i of s (chars().enumerate())
CharAt(s, i) == s[i + 1]

RECURSIVE CommaCount(_, _)
\* the 'commacounter loop: the number of ',' read from position p on
CommaCount(s, p) ==
    IF p < Len(s) /\ CharAt(s, p) = "," THEN 1 + CommaCount(s, p + 1) ELSE 0

\* "match comma_count > 1 || was_opening" with only the count looked at
CommaKind_CountOnly(comma_count, was_opening) ==
    IF comma_count > 1 THEN Empty(comma_count) ELSE Comma

\* "match comma_count > 1 || was_opening": the token of a run of commas that
\* no '}' follows
CommaKind(comma_count, was_opening) ==
    IF comma_count > 1 \/ was_opening THEN Empty(comma_count) ELSE Comma

\* the test of the comma arm never taking a comma for text
OutsideBraces_Never(t, was_opening) == FALSE

\* "(self.count.0 == 0 || self.count.0 == self.count.1) && !was_opening": the
\* comma stands outside the braces and is text
OutsideBraces(t, was_opening) ==
    (t.count[1] = 0 \/ t.count[1] = t.count[2]) /\ ~was_opening

\* the arm (old_state, ',') of the match in Tokenizer::tokenize
CommaArm(t, s, i) ==
    LET was_opening == t.state = "Opening" IN
    IF OutsideBraces(t, was_opening)
    THEN [t |-> IF t.text_cut[2] >= 1
                THEN [t EXCEPT !.text_cut = <<t.text_cut[1], t.text_cut[2] + 1>>]
                ELSE text_start(tokenize_buffers(t), i),
          iter |-> i + 1, err |-> "none"]
    ELSE LET b == tokenize_buffers(t)
             comma_count == 1 + CommaCount(s, i + 1)
             ni == i + comma_count
         IN  IF ni < Len(s) /\ CharAt(s, ni) = "}"
             THEN [t |-> insert_closing(insert_token(b, i, Empty(comma_count)), ni),
                   iter |-> ni + 1, err |-> "none"]
             ELSE [t |-> [insert_token(b, i, CommaKind(comma_count, was_opening))
                              EXCEPT !.state = "Comma"],
                   iter |-> ni, err |-> "none"]

\* DotArm without "iter = check": the second '.' is read again
DotArm_NoSkip(t, s, i) ==
    LET b == tokenize_number(t) IN
    IF i + 1 < Len(s)
    THEN IF CharAt(s, i + 1) = "."
         THEN [t |-> [insert_token(b, i, Range) EXCEPT !.state = "None"],
               iter |-> i + 1, err |-> "none"]
         ELSE [t |-> text_start(b, i), iter |-> i + 1, err |-> "none"]
    ELSE [t |-> insert_token(b, i, Text(1)), iter |-> i + 1, err |-> "none"]

\* the arm (State::None | State::Number, '.') of the match
DotArm(t, s, i) ==
    LET b == tokenize_number(t) IN
    IF i + 1 < Len(s)
    THEN IF CharAt(s, i + 1) = "."
         THEN [t |-> [insert_token(b, i, Range) EXCEPT !.state = "None"],
               iter |-> i + 2, err |-> "none"]
         ELSE [t |-> text_start(b, i), iter |-> i + 1, err |-> "none"]
    ELSE [t |-> insert_token(b, i, Text(1)), iter |-> i + 1, err |-> "none"]

\* the arm (State::Escape, _) dropping the escaped character
EscapeArm_Skip(t, i) == [t EXCEPT !.state = "None"]

\* the arm (State::Escape, _) of the match
EscapeArm(t, i) == text_start(t, i)

\* the pattern (State::Opening, '}') never matching
EmptyBracesArm_Never(t, c) == FALSE

\* the pattern (State::Opening, '}') of the arm that returns EmptyBraces
EmptyBracesArm(t, c) == t.state = "Opening" /\ c = "}"

\* one iteration of the 'tokenize loop: the match on (&self.state, c), its
\* arms in source order
\* a '.' after a brace or a comma looking ahead for a second '.' as the arm
\* of the states None and Number does
OtherDotArm_Range(t, s, i) == DotArm(t, s, i)

\* the arm (_, '.') of Tokenizer::tokenize, taken in the states Opening,
\* Closing and Comma: text_start(i)
OtherDotArm(t, s, i) == [t |-> text_start(t, i), iter |-> i + 1, err |-> "none"]

\* the arm of a '.' in the state Text closing the text before the dot
TextDotArm_Flush(t) == tokenize_text(t)

\* the arm (State::Text, '.') of Tokenizer::tokenize: text_cut.1 += 1
TextDotArm(t) == [t EXCEPT !.text_cut = <<t.text_cut[1], t.text_cut[2] + 1>>]

Scan(t, s, i) ==
    LET c == CharAt(s, i)
        next(u) == [t |-> u, iter |-> i + 1, err |-> "none"]
    IN
    IF t.state = "Escape" THEN next(EscapeArm(t, i))
    ELSE IF c = "\\" THEN next([tokenize_buffers(t) EXCEPT !.state = "Escape"])
    ELSE IF t.state = "Number" /\ IsDigit(c)
         THEN next([t EXCEPT !.number_cut = <<t.number_cut[1], t.number_cut[2] + 1>>])
    ELSE IF IsDigit(c) THEN next(number_start(t, i))
    ELSE IF t.state = "Text" /\ c = "." THEN next(TextDotArm(t))
    ELSE IF t.state \in {"None", "Number"} /\ c = "." THEN DotArm(t, s, i)
    ELSE IF c = "." THEN OtherDotArm(t, s, i)
    ELSE IF c = "{" THEN next(insert_opening(tokenize_buffers(t), i))
    ELSE IF EmptyBracesArm(t, c)
         THEN [t |-> t, iter |-> i + 1, err |-> "EmptyBraces"]
    ELSE IF c = "}" THEN next(insert_closing(tokenize_buffers(t), i))
    ELSE IF c = "," THEN CommaArm(t, s, i)
    ELSE IF t.state = "Text"
         THEN next([t EXCEPT !.text_cut = <<t.text_cut[1], t.text_cut[2] + 1>>])
    ELSE next(text_start(tokenize_buffers(t), i))

\* the end checks without the comparison of the two counts
EndChecks_NoMismatch(t) ==
    IF t.state = "Escape" THEN "NothingToEscape"
    ELSE IF t.count = <<0, 0>> THEN "NoBraces"
    ELSE "Ok"

\* the end checks with the counts looked at before the escape state
EndChecks_CountsFirst(t) ==
    IF t.count = <<0, 0>> THEN "NoBraces"
    ELSE IF t.count[1] # t.count[2] THEN "BracesDontMatch"
    ELSE IF t.state = "Escape" THEN "NothingToEscape"
    ELSE "Ok"

\* the checks of Tokenizer::tokenize after the loop (the buffers are flushed
\* before them)
EndChecks(t) ==
    IF t.state = "Escape" THEN "NothingToEscape"
    ELSE IF t.count = <<0, 0>> THEN "NoBraces"
    ELSE IF t.count[1] # t.count[2] THEN "BracesDontMatch"
    ELSE "Ok"

(***************************************************************************)
(* Parser (parser.rs).  p is the Parser: [content, tokens].  A fragment is *)
(* a sequence of token positions.  Option<T> is None or Some(v); a Result  *)
(* is Ok(v) or Err(e, pos), pos = NoPos for an error without a position.   *)
(***************************************************************************)
None == [some |-> FALSE]
Some(v) == [some |-> TRUE, v |-> v]
NoPos == 0 - 1
Ok(v) == [ok |-> TRUE, v |-> v]
Err(e, pos) == [ok |-> FALSE, err |-> e, pos |-> pos]

\* Node
TextNode(c) == [type |-> "Text", content |-> c]
RangeNode(from, to) == [type |-> "Range", from |-> from, to |-> to]
CollectionNode(items) == [type |-> "Collection", items |-> items]
\* Node::BraceExpansion with prefix and postfix taking each other's place
BraceExpansionNode_Swapped(prefix, inside, postfix) ==
    [type |-> "BraceExpansion", prefix |-> postfix, inside |-> inside,
     postfix |-> prefix]

BraceExpansionNode(prefix, inside, postfix) ==
    [type |-> "BraceExpansion", prefix |-> prefix, inside |-> inside,
     postfix |-> postfix]

\* get_a_slice_of_cake taking one character too few
get_a_slice_of_cake_Short(p, start, end) ==
    SubSeq(p.content, start + 1, end - 1)

get_a_slice_of_cake(p, start, end) == SubSeq(p.content, start + 1, end)

RECURSIVE SortedKeys(_)
\* keys.sort(): the positions of S in increasing order
SortedKeys(S) ==
    IF S = {} THEN <<>>
    ELSE LET m == CHOOSE x \in S : \A y \in S : x <= y
         IN  <<m>> \o SortedKeys(S \ {m})

\* every postfix and every item taken to hold a bracket
HasBracket_Always(p, fragment) == TRUE

\* fragment.iter().any(|ti| matches!(token, OpeningBracket | ClosingBracket))
HasBracket(p, fragment) ==
    \E k \in 1..Len(fragment) :
        p.tokens[fragment[k]].kind \in {"OpeningBracket", "ClosingBracket"}

\* fragment.iter().any(|t| matches!(token, Range))
HasRange(p, fragment) ==
    \E k \in 1..Len(fragment) : p.tokens[fragment[k]].kind = "Range"

RECURSIVE SeperateLoop(_, _, _, _)
\* Parser::seperate letting a Range stand in the prefix
NeedsOpening_CommaOnly(token, w) ==
    token.kind = "Comma" /\ w.bracing_state = "Prefix"

\* the guard "Comma | Range if bracing_state == Prefix" of Parser::seperate
NeedsOpening(token, w) ==
    token.kind \in {"Comma", "Range"} /\ w.bracing_state = "Prefix"

\* Parser::seperate never leaving the inside
InsideClosed_Never(c) == FALSE

\* the test that ends the inside at a ClosingBracket in Parser::seperate
InsideClosed(c) == c.count[1] = c.count[2]

\* Parser::seperate passing over a ClosingBracket met in the prefix
PrefixClosing_Skip(p, fragment, k, c) == SeperateLoop(p, fragment, k + 1, c)

\* the arm of a ClosingBracket met in the state _Prefix, at the k-th token
PrefixClosing(p, fragment, k, c) == Err("ExtraClosingBracket", fragment[k])

\* the for loop of Parser::seperate from the k-th token of the fragment on;
\* w holds the locals: count, prefix, inside, postfix, bracing_state
SeperateLoop(p, fragment, k, w) ==
    IF k > Len(fragment)
    THEN Ok([pre  |-> IF w.prefix = <<>> THEN None ELSE Some(w.prefix),
             ins  |-> IF w.inside = <<>> THEN None ELSE Some(w.inside),
             post |-> IF w.postfix = <<>> THEN None ELSE Some(w.postfix)])
    ELSE
    LET ti == fragment[k]
        token == p.tokens[ti]
        push(x) ==
            IF x.bracing_state = "Prefix"
            THEN [x EXCEPT !.prefix = Append(x.prefix, ti)]
            ELSE IF x.bracing_state = "Inside"
            THEN [x EXCEPT !.inside = Append(x.inside, ti)]
            ELSE [x EXCEPT !.postfix = Append(x.postfix, ti)]
    IN
    IF token.kind = "OpeningBracket"
    THEN LET c == [w EXCEPT !.count = <<w.count[1] + 1, w.count[2]>>] IN
         IF c.bracing_state = "Prefix"
         THEN SeperateLoop(p, fragment, k + 1,
                  [c EXCEPT !.bracing_state = "Inside",
                            !.inside = Append(c.inside, ti)])
         ELSE SeperateLoop(p, fragment, k + 1, push(c))
    ELSE IF token.kind = "ClosingBracket"
    THEN LET c == [w EXCEPT !.count = <<w.count[1], w.count[2] + 1>>] IN
         IF c.bracing_state = "Prefix"
         THEN PrefixClosing(p, fragment, k, c)
         ELSE IF c.bracing_state = "Inside"
         THEN SeperateLoop(p, fragment, k + 1,
                  [c EXCEPT !.inside = Append(c.inside, ti),
                            !.bracing_state =
                                IF InsideClosed(c)
                                THEN "Postfix" ELSE "Inside"])
         ELSE SeperateLoop(p, fragment, k + 1, push(c))
    ELSE IF NeedsOpening(token, w)
    THEN Err("OpeningBracketExpected", ti)
    ELSE SeperateLoop(p, fragment, k + 1, push(w))

seperate(p, fragment) ==
    IF fragment = <<>> THEN Err("NoFragment", NoPos)
    ELSE SeperateLoop(p, fragment, 1,
             [count |-> <<0, 0>>, prefix |-> <<>>, inside |-> <<>>,
              postfix |-> <<>>, bracing_state |-> "Prefix"])

RECURSIVE TextLoop(_, _, _, _)
\* the for loop of Parser::text from the k-th token on; acc is content
TextLoop(p, fragment, k, acc) ==
    IF k > Len(fragment) THEN Ok(TextNode(acc))
    ELSE LET ti == fragment[k]
             token == p.tokens[ti]
         IN  IF token.kind \in {"Text", "Number"}
             THEN TextLoop(p, fragment, k + 1,
                      acc \o get_a_slice_of_cake(p, ti, ti + token.l))
             ELSE IF token.kind = "Empty"
             THEN TextLoop(p, fragment, k + 1, acc)
             ELSE Err("ExpectedText", ti)

text(p, fragment) ==
    IF fragment = <<>> THEN Err("NoFragment", NoPos)
    ELSE TextLoop(p, fragment, 1, <<>>)

\* Parser::range taking the position of the operator for the one after it
AfterOperator_Same(ti) == ti

\* pos.1 = *token_index + 2 in the Range arm of Parser::range
AfterOperator(ti) == ti + 2

RECURSIVE RangeLoop(_, _, _, _)
\* the for loop of Parser::range from the k-th token on; w holds the
\* locals: start, pos, state, limits
RangeLoop(p, fragment, k, w) ==
    IF k > Len(fragment)
    THEN IF w.limits[2] = <<>>
         THEN Err("EndLimitExpected", w.pos[2])
         ELSE Ok(RangeNode(w.limits[1], w.limits[2]))
    ELSE
    LET ti == fragment[k]
        token == p.tokens[ti]
        slice == get_a_slice_of_cake(p, ti, ti + token.l)
    IN
    IF token.kind = "OpeningBracket" THEN Err("ExtraOpeningBracket", ti)
    ELSE IF token.kind = "ClosingBracket" THEN Err("ExtraClosingBracket", ti)
    ELSE IF token.kind \in {"Empty", "Comma"} THEN Err("NoCommaInRange", ti)
    ELSE IF token.kind = "Text" THEN Err("NoTextInRange", ti)
    ELSE IF token.kind = "Number"
    THEN IF w.state = "First"
         THEN RangeLoop(p, fragment, k + 1,
                  [w EXCEPT !.pos = IF w.start THEN <<ti, w.pos[2]>> ELSE w.pos,
                            !.start = FALSE,
                            !.limits = <<w.limits[1] \o slice, w.limits[2]>>])
         ELSE RangeLoop(p, fragment, k + 1,
                  [w EXCEPT !.state = "Second",
                            !.limits = <<w.limits[1], w.limits[2] \o slice>>,
                            !.pos = <<w.pos[1], ti + token.l>>])
    ELSE \* TokenKind::Range
         IF w.state = "First"
         THEN IF w.start
              THEN Err("StartLimitExpected", ti)
              ELSE RangeLoop(p, fragment, k + 1,
                       [w EXCEPT !.state = "Range",
                                 !.pos = <<w.pos[1], AfterOperator(ti)>>])
         ELSE Err("ExtraRange", ti)

range(p, fragment) ==
    IF fragment = <<>> THEN Err("NoFragment", NoPos)
    ELSE RangeLoop(p, fragment, 1,
             [start |-> TRUE, pos |-> <<0, 0>>, state |-> "First",
              limits |-> <<<<>>, <<>>>>])

\* the arm of a top-level Empty leaving the token in current
PushEmpty_Keep(flushed, ti) == [flushed EXCEPT !.current = <<ti>>]

\* the arm of a top-level Empty, after the item before it is pushed:
\* current.push(token_index); collections.push(current); current.clear()
PushEmpty(flushed, ti) ==
    [flushed EXCEPT !.collections = Append(flushed.collections, <<ti>>),
                    !.current = <<>>]

\* Parser::collection splitting at every Comma and Empty of the body
TopLevel_Any(w) == TRUE

\* the guard "count.0 == (count.1 + 1)" of the Empty and Comma arms of
\* Parser::collection
TopLevel(w) == w.count[1] = w.count[2] + 1

RECURSIVE CollectionLoop(_, _, _, _)
\* the for loop of Parser::collection from the k-th token on; w holds the
\* locals pos, count, collections, current; the result is their final value
\* with the last current pushed when it is not empty
CollectionLoop(p, fragment, k, w) ==
    IF k > Len(fragment)
    THEN IF w.current # <<>>
         THEN [w EXCEPT !.collections = Append(w.collections, w.current)]
         ELSE w
    ELSE
    LET ti == fragment[k]
        token == p.tokens[ti]
        top == TopLevel(w)
        flushed == IF w.current # <<>>
                   THEN [w EXCEPT !.collections = Append(w.collections, w.current),
                                  !.current = <<>>]
                   ELSE w
        pushed == [w EXCEPT !.current = Append(w.current, ti)]
    IN
    IF token.kind = "Empty" /\ top
    THEN CollectionLoop(p, fragment, k + 1, PushEmpty(flushed, ti))
    ELSE IF token.kind = "Comma" /\ top
    THEN CollectionLoop(p, fragment, k + 1, flushed)
    ELSE IF token.kind \in {"Empty", "Comma"}
    THEN CollectionLoop(p, fragment, k + 1, pushed)
    ELSE IF token.kind = "OpeningBracket"
    THEN CollectionLoop(p, fragment, k + 1,
             [(IF w.count[1] = 0
               THEN [w EXCEPT !.pos = <<ti, w.pos[2]>>]
               ELSE pushed)
                  EXCEPT !.count = <<w.count[1] + 1, w.count[2]>>])
    ELSE IF token.kind = "ClosingBracket"
    THEN CollectionLoop(p, fragment, k + 1,
             [(IF w.count[1] = w.count[2] + 1
               THEN [w EXCEPT !.pos = <<w.pos[1], ti>>]
               ELSE pushed)
                  EXCEPT !.count = <<w.count[1], w.count[2] + 1>>])
    ELSE CollectionLoop(p, fragment, k + 1, pushed)

\* the items Parser::collection splits a brace body into (collections)
CollectionSplit(p, fragment) ==
    CollectionLoop(p, fragment, 1,
        [pos |-> <<0, 0>>, count |-> <<0, 0>>, collections |-> <<>>,
         current |-> <<>>])

RECURSIVE reparse(_, _)
RECURSIVE collection(_, _)
RECURSIVE CollectionItems(_, _, _, _)

\* an item of several that holds a Range token parsed as a range
ItemNode_Range(p, item) ==
    IF HasBracket(p, item) THEN reparse(p, item)
    ELSE IF HasRange(p, item) THEN range(p, item)
    ELSE text(p, item)

\* the body of the loop "for collection in collections": reparse for an item
\* that holds a bracket, text for any other
ItemNode(p, item) ==
    IF HasBracket(p, item) THEN reparse(p, item) ELSE text(p, item)

\* the loop "for collection in collections" of Parser::collection from the
\* k-th item on; acc is parsed_collection
CollectionItems(p, collections, k, acc) ==
    IF k > Len(collections) THEN Ok(CollectionNode(acc))
    ELSE LET r == ItemNode(p, collections[k])
         IN  IF r.ok
             THEN CollectionItems(p, collections, k + 1, Append(acc, r.v))
             ELSE r

\* Parser::collection without its branch for one item: a Collection is built
\* whatever the number of items
collection_Wrap(p, fragment) ==
    IF fragment = <<>> THEN Err("NoFragment", NoPos)
    ELSE LET w == CollectionSplit(p, fragment) IN
         IF Len(w.collections) = 0 THEN Err("NothingInBraces", w.pos[1])
         ELSE CollectionItems(p, w.collections, 1, <<>>)

collection(p, fragment) ==
    IF fragment = <<>> THEN Err("NoFragment", NoPos)
    ELSE LET w == CollectionSplit(p, fragment) IN
         IF Len(w.collections) = 0 THEN Err("NothingInBraces", w.pos[1])
         ELSE IF Len(w.collections) = 1
         THEN IF HasRange(p, w.collections[1])
              THEN range(p, w.collections[1])
              ELSE text(p, w.collections[1])
         ELSE CollectionItems(p, w.collections, 1, <<>>)

reparse(p, fragment) ==
    IF fragment = <<>> THEN Err("NoFragment", NoPos)
    ELSE
    LET seperated == seperate(p, fragment) IN
    IF ~seperated.ok THEN seperated
    ELSE
    LET pre == IF seperated.v.pre.some
               THEN text(p, seperated.v.pre.v) ELSE Ok(None)
    IN
    IF ~pre.ok THEN pre
    ELSE
    LET ins == IF seperated.v.ins.some
               THEN collection(p, seperated.v.ins.v) ELSE Ok(None)
    IN
    IF ~ins.ok THEN ins
    ELSE
    LET post == IF seperated.v.post.some
                THEN IF HasBracket(p, seperated.v.post.v)
                     THEN reparse(p, seperated.v.post.v)
                     ELSE text(p, seperated.v.post.v)
                ELSE Ok(None)
    IN
    IF ~post.ok THEN post
    ELSE Ok(BraceExpansionNode(
                IF seperated.v.pre.some THEN Some(pre.v) ELSE None,
                IF seperated.v.ins.some THEN Some(ins.v) ELSE None,
                IF seperated.v.post.some THEN Some(post.v) ELSE None))

\* Parser::from_tokenizer
from_tokenizer(s, toks) ==
    IF DOMAIN toks = {} THEN Err("NoTokens", NoPos)
    ELSE Ok([content |-> s, tokens |-> toks])

\* self.tokens.keys(): the keys of the HashMap in an order it may iterate
\* in; the ascending order, its rotations and the descending order stand
\* for the orders
KeyOrders(S) ==
    LET a == SortedKeys(S)
        n == Len(a)
    IN  {[k \in 1..n |-> a[((k - 1 + r) % n) + 1]] : r \in 0..(n - 1)}
            \cup {[k \in 1..n |-> a[n + 1 - k]]}

\* Parser::parse without keys.sort()
sort_None(keys) == keys

\* keys.sort()
sort(keys) == SortedKeys({keys[k] : k \in 1..Len(keys)})

\* Parser::parse, keys being what self.tokens.keys() has collected
parse(p, keys) == reparse(p, sort(keys))

(***************************************************************************)
(* expand, called by main.rs as bracoxide::expand.  Its code is not in     *)
(* lib.rs; it is modelled from section 4.3 of the specification.           *)
(* Range bounds are converted to integers and back: "01" expands as "1".   *)
(* A bound beyond usize::MAX cannot be written within the bounds of the    *)
(* model.                                                                  *)
(***************************************************************************)
DigitValue(c) ==
    CASE c = "0" -> 0 [] c = "1" -> 1 [] c = "2" -> 2 [] c = "3" -> 3
      [] c = "4" -> 4 [] c = "5" -> 5 [] c = "6" -> 6 [] c = "7" -> 7
      [] c = "8" -> 8 [] c = "9" -> 9

DigitChar(d) ==
    CASE d = 0 -> "0" [] d = 1 -> "1" [] d = 2 -> "2" [] d = 3 -> "3"
      [] d = 4 -> "4" [] d = 5 -> "5" [] d = 6 -> "6" [] d = 7 -> "7"
      [] d = 8 -> "8" [] d = 9 -> "9"

RECURSIVE DigitsValue(_, _)
DigitsValue(s, acc) ==
    IF s = <<>> THEN acc ELSE DigitsValue(Tail(s), 10 * acc + DigitValue(Head(s)))

\* str::parse::<usize>
ParseUsize(s) ==
    IF s = <<>> \/ \E k \in 1..Len(s) : ~IsDigit(s[k])
    THEN Err("NumConversionFailed", s)
    ELSE Ok(DigitsValue(s, 0))

RECURSIVE to_string(_)
\* usize::to_string
to_string(n) ==
    IF n < 10 THEN <<DigitChar(n)>>
    ELSE to_string(n \div 10) \o <<DigitChar(n % 10)>>

RECURSIVE RangeStrings(_, _)
\* for i in from..=to: the decimal strings, ascending
RangeStrings(from, to) ==
    IF from > to THEN <<>>
    ELSE <<to_string(from)>> \o RangeStrings(from + 1, to)

RECURSIVE ForPostfix(_, _, _, _)
\* the inner loop: over the postfix alternatives from the c-th on
ForPostfix(pre, ins, postfixes, c) ==
    IF c > Len(postfixes) THEN <<>>
    ELSE <<pre \o ins \o postfixes[c]>> \o ForPostfix(pre, ins, postfixes, c + 1)

RECURSIVE ForInside(_, _, _, _)
\* the middle loop: over the inside alternatives from the b-th on
ForInside(pre, insides, postfixes, b) ==
    IF b > Len(insides) THEN <<>>
    ELSE ForPostfix(pre, insides[b], postfixes, 1)
             \o ForInside(pre, insides, postfixes, b + 1)

RECURSIVE ForPrefix(_, _, _, _)
\* the outer loop: over the prefix alternatives from the a-th on
ForPrefix(prefixes, insides, postfixes, a) ==
    IF a > Len(prefixes) THEN <<>>
    ELSE ForInside(prefixes[a], insides, postfixes, 1)
             \o ForPrefix(prefixes, insides, postfixes, a + 1)

RECURSIVE expand(_)
RECURSIVE ExpandItems(_, _, _)

\* Collection: the items' expansions, concatenated in item order
ExpandItems(items, k, acc) ==
    IF k > Len(items) THEN Ok(acc)
    ELSE LET r == expand(items[k])
         IN  IF r.ok THEN ExpandItems(items, k + 1, acc \o r.v) ELSE r

\* an absent segment counts as [""]
ExpandOption(o) == IF o.some THEN expand(o.v) ELSE Ok(<< <<>> >>)

expand(node) ==
    IF node.type = "Text" THEN Ok(<<node.content>>)
    ELSE IF node.type = "Range"
    THEN LET from == ParseUsize(node.from)
             to == ParseUsize(node.to)
         IN  IF ~from.ok THEN from
             ELSE IF ~to.ok THEN to
             ELSE Ok(RangeStrings(from.v, to.v))
    ELSE IF node.type = "Collection" THEN ExpandItems(node.items, 1, <<>>)
    ELSE LET prefixes == ExpandOption(node.prefix) IN
         IF ~prefixes.ok THEN prefixes
         ELSE LET insides == ExpandOption(node.inside) IN
         IF ~insides.ok THEN insides
         ELSE LET postfixes == ExpandOption(node.postfix) IN
         IF ~postfixes.ok THEN postfixes
         ELSE Ok(ForPrefix(prefixes.v, insides.v, postfixes.v, 1))

(***************************************************************************)
(* Inputs.                                                                 *)
(***************************************************************************)
\* every string over Sigma of at most MaxLen characters, the empty one too
ShortInputs == UNION {[1..n -> Sigma] : n \in 0..MaxLen}

\* the patterns of the tests and of the documentation
ExSimpleExpansion == <<"A", "{", "B", ",", "C", "}", "D", "{", "1", "3", ".", ".", "1", "5", "}">>
ExNested == <<"A", "{", "B", ",", "C", "{", "D", ",", "E", "}", "F", ",", "G", "}", "H">>
ExABC == <<"{", "a", ",", "b", ",", "c", "}">>
ExMain == <<"A", "{", "B", ",", "C", "{", "D", ",", "E", "}", "F", ",", "G", "}", "H", "{", "J", ",", "K", "}", "L", "{", "3", ".", ".", "5", "}">>
ExRange35 == <<"{", "3", ".", ".", "5", "}">>
ExRange53 == <<"{", "5", ".", ".", "3", "}">>
ExEscapedComma == <<"A", "{", "1", ".", ".", "3", "}", "\\", ",", "B", "{", "2", ",", "5", "}">>
ExCommaOutside == <<"A", "{", "1", ".", ".", "3", "}", ",", "B", "{", "2", ",", "5", "}">>
ExDotOutside == <<"A", "{", "1", ".", ".", "3", "}", ".", "B", "{", "2", ",", "5", "}">>
ExRangeOutside == <<"A", "{", "1", ".", ".", "3", "}", ".", ".", "B", "{", "2", ",", "5", "}">>
ExRangeNoBrace == <<"A", "1", ".", ".", "3", ".", "B", "{", "2", ",", "5", "}">>
ExSimpleText == <<"{", "S", "a", "l", "u", "t", "\\", ",", " ", "m", "o", "n", " ", "a", "m", "i", "!", "}">>
ExNoBraces == <<"S", "a", "l", "u", "t", "!", "\\", ",", " ", "m", "o", "n", " ", "a", "m", "i", "!">>
ExNumber == <<"{", "1", "0", "8", "0", "1", "9", "2", "0", "}">>
ExUnclosedTwice == <<"{", "{", "A", "}">>
ExClosedTwice == <<"{", "A", "}", "}">>
ExFormat == <<"{", "a", ",", " ", "b", ",", " ", "c", ",", " ", "d">>
ExMismatch == <<"a", "{", "b", "{", "c", ",", "d", "e", "}", "f">>
ExDotsInText == <<"{", "a", ".", ".", "b", "}">>
ExDots1 == <<"{", "1", ".", "2", ".", "3", ",", "b", "}">>
ExDots2 == <<"{", "a", ".", "b", ".", "c", ",", "d", "}">>
ExDots3 == <<"{", "a", ".", "1", ".", "c", ".", "2", ".", "d", ",", "3", ".", "e", ".", "4", ",", "f", "}">>
ExEmptyStart == <<"A", "{", ",", "B", ",", "C", "}", "D">>
ExEmptyMiddle == <<"A", "{", "B", ",", ",", "C", "}", "D">>
ExEmptyEnd == <<"A", "{", "B", ",", "C", ",", "}", "D">>
ExEmptyThree == <<"{", "a", ",", ",", ",", "b", "}">>
ExSimpleCollection == <<"{", ",", "A", ",", ",", "B", ",", "C", ",", "1", ",", "3", ",", "1", "3", ",", "}">>
ExComplexCollection == <<"{", ",", "A", ",", "B", "{", "C", ",", "D", "}", "E", ",", ",", ",", "F", "{", "3", ".", ".", "5", "}", "G", ",", "}">>
ExDocNested1 == <<"{", "a", "{", "b", ",", "c", "}", "d", "}">>
ExDocNested2 == <<"{", "x", "{", "1", ".", ".", "3", "}", ",", "y", "{", "4", ".", ".", "6", "}", "}">>
ExDocRange == <<"{", "0", ".", ".", "9", "}">>
ExDocOptions == <<"{", "r", "e", "d", ",", "g", "r", "e", "e", "n", ",", "b", "l", "u", "e", "}">>
ExRangeBeforeBrace == <<"1", ".", ".", "3", "{", "a", ",", "b", "}">>
ExRangeItem == <<"{", "1", ".", ".", "3", ",", "5", "}">>
ExRangeItemBraced == <<"{", "{", "1", ".", ".", "3", "}", ",", "5", "}">>
ExNoStartLimit == <<"{", ".", ".", "3", "}">>
ExNoEndLimit == <<"{", "1", ".", ".", "}">>
ExTwoRanges == <<"{", "1", ".", ".", "2", ".", ".", "3", "}">>
ExCloseCommaOpen == <<"}", ",", "{", "a">>
ExDotsThenBrace == <<".", ".", "{", "a", "}">>
ExEscapedBraces == <<"\\", "{", "a", "{", "b", "\\", "}", "c", "}">>
ExDigitEscape == <<"{", "1", "\\", "2", ",", "3", "}">>
\* a postfix and a collection item that Parser::reparse parses again and that
\* hold a ClosingBracket or a Range before their first OpeningBracket
ExCloseInPostfix == <<"{", "a", "}", "}", "{">>
ExRangeInPostfix == <<"{", "a", "}", "1", ".", ".", "{", "b", "}">>
ExRangeInItem == <<"{", "a", ",", "1", ".", ".", "{", "b", "}", "}">>

Examples ==
    {ExDotsInText,
     ExCloseInPostfix,
     ExRangeInPostfix,
     ExRangeInItem,
     ExSimpleExpansion,
     ExNested,
     ExABC,
     ExMain,
     ExRange35,
     ExRange53,
     ExEscapedComma,
     ExCommaOutside,
     ExDotOutside,
     ExRangeOutside,
     ExRangeNoBrace,
     ExSimpleText,
     ExNoBraces,
     ExNumber,
     ExUnclosedTwice,
     ExClosedTwice,
     ExFormat,
     ExMismatch,
     ExDots1,
     ExDots2,
     ExDots3,
     ExEmptyStart,
     ExEmptyMiddle,
     ExEmptyEnd,
     ExEmptyThree,
     ExSimpleCollection,
     ExComplexCollection,
     ExDocNested1,
     ExDocNested2,
     ExDocRange,
     ExDocOptions,
     ExRangeBeforeBrace,
     ExRangeItem,
     ExRangeItemBraced,
     ExNoStartLimit,
     ExNoEndLimit,
     ExTwoRanges,
     ExCloseCommaOpen,
     ExDotsThenBrace,
     ExEscapedBraces,
     ExDigitEscape}

\* "{m..n}" for digit strings m and n, leading zeros included
RangeDigits == {"0", "1"}
DigitStrings == UNION {[1..n -> RangeDigits] : n \in 1..MaxDigits}
RangeInput(m, n) == <<"{">> \o m \o <<".", ".">> \o n \o <<"}">>
RangeInputs == {RangeInput(m, n) : m \in DigitStrings, n \in DigitStrings}

\* P{I1,...,In}S: an item is a literal (alts empty) or a literal wrapping a
\* nested brace group, pre{alts[1],...}post
Lit(x) == [pre |-> x, alts |-> <<>>, post |-> <<>>]
Nest(pre, alts, post) == [pre |-> pre, alts |-> alts, post |-> post]
PatternItems ==
    {Lit(<<"B">>), Lit(<<"G", "g">>),
     Nest(<<"C">>, << <<"D">>, <<"E">> >>, <<"F">>),
     Nest(<<"C">>, << <<"D">>, <<"E", "e">> >>, <<>>)}
Patterns ==
    [P : {<<>>, <<"A">>},
     items : UNION {[1..n -> PatternItems] : n \in 1..MaxItems},
     S : {<<>>, <<"H">>}]

RenderItem(item) ==
    IF item.alts = <<>> THEN item.pre
    ELSE item.pre \o <<"{">> \o Join(item.alts, <<",">>) \o <<"}">> \o item.post
RenderItems(items) == Join([k \in 1..Len(items) |-> RenderItem(items[k])], <<",">>)
RenderPattern(pat) == pat.P \o <<"{">> \o RenderItems(pat.items) \o <<"}">> \o pat.S
PatternInputs == {RenderPattern(pat) : pat \in Patterns}

Inputs == ShortInputs \cup RangeInputs \cup PatternInputs \cup Examples

\* Node is a public type: expand is also called on trees no parse built.
\* Here the prefix and the postfix may hold several alternatives.
TwoWay(x, y) ==
    BraceExpansionNode(None,
        Some(CollectionNode(<<TextNode(x), TextNode(y)>>)), None)
TreeInputs ==
    {BraceExpansionNode(pre, ins, post) :
        pre \in {None, Some(TextNode(<<"p">>)), Some(TwoWay(<<"p">>, <<"q">>))},
        ins \in {None, Some(CollectionNode(<<TextNode(<<"i">>), TextNode(<<>>),
                                             TextNode(<<"j", "j">>)>>)),
                 Some(RangeNode(<<"0", "9">>, <<"1", "1">>)),
                 Some(RangeNode(<<"3">>, <<"1">>))},
        post \in {None, Some(TextNode(<<"s">>)), Some(TwoWay(<<"s">>, <<"t">>))}}

(***************************************************************************)
(* The pipeline of main.rs: Tokenizer::new, Tokenizer::tokenize,           *)
(* Parser::parse, expand.                                                  *)
(***************************************************************************)
InitFields ==
    /\ iter = 0
    /\ state = "None"
    /\ text_cut = <<0, 0>>
    /\ number_cut = <<0, 0>>
    /\ count = <<0, 0>>
    /\ tokens = NoTokenMap
    /\ inserted = <<>>
    /\ tokResult = "none"
    /\ expandResult = Err("none", NoPos)
    /\ is_escape = FALSE
    /\ buffers = << <<>>, <<>> >>
    /\ liter = 0
    /\ lcount = <<0, 0>>
    /\ ltokens = <<>>
    /\ lResult = "none"
    /\ testFragment = <<>>
    /\ stack = <<>>

\* main.rs on a pattern, or expand on a tree
Init ==
    /\ InitFields
    /\ \/ /\ content \in Inputs
          /\ pc = "new"
          /\ parseResult = Err("none", NoPos)
       \/ /\ content = <<>>
          /\ pc = "expand"
          /\ parseResult \in {Ok(n) : n \in TreeInputs}

SetTokenizer(t) ==
    /\ state' = t.state
    /\ text_cut' = t.text_cut
    /\ number_cut' = t.number_cut
    /\ count' = t.count
    /\ tokens' = t.tokens
    /\ inserted' = t.inserted

\* Tokenizer::new
New ==
    /\ pc = "new"
    /\ IF content = <<>>
       THEN /\ tokResult' = "NoContent"
            /\ pc' = "done"
       ELSE /\ tokResult' = tokResult
            /\ pc' = "tokenize"
    /\ SetTokenizer([state |-> "None", text_cut |-> <<0, 0>>,
                     number_cut |-> <<0, 0>>, count |-> <<0, 0>>,
                     tokens |-> NoTokenMap, inserted |-> <<>>])
    /\ iter' = 0
    /\ UNCHANGED <<content, testFragment, stack, parseResult, expandResult, libVars, lResult>>

\* Tokenizer::tokenize: one iteration of the loop
TokStep ==
    /\ pc = "tokenize"
    /\ iter < Len(content)
    /\ LET r == Scan(Self, content, iter) IN
       IF r.err # "none"
       THEN /\ tokResult' = r.err
            /\ pc' = "done"
            /\ UNCHANGED <<iter, tokVars>>
       ELSE /\ SetTokenizer(r.t)
            /\ iter' = r.iter
            /\ UNCHANGED <<pc, tokResult>>
    /\ UNCHANGED <<content, testFragment, stack, parseResult, expandResult, libVars, lResult>>

\* Tokenizer::tokenize: after the loop
TokFinish ==
    /\ pc = "tokenize"
    /\ iter >= Len(content)
    /\ LET t == tokenize_buffers(Self) IN
       /\ SetTokenizer(t)
       /\ tokResult' = EndChecks(t)
       /\ pc' = IF EndChecks(t) = "Ok" THEN "parse" ELSE "done"
    /\ UNCHANGED <<content, testFragment, stack, iter, parseResult, expandResult, libVars, lResult>>

\* Parser::from_tokenizer and Parser::parse
Parse ==
    /\ pc = "parse"
    /\ \E keys \in KeyOrders(DOMAIN tokens) :
           LET p == from_tokenizer(content, tokens)
               r == IF p.ok THEN parse(p.v, keys) ELSE p
           IN  /\ parseResult' = r
               /\ pc' = IF r.ok THEN "expand" ELSE "done"
    /\ UNCHANGED <<content, testFragment, stack, iter, tokVars, tokResult, expandResult, libVars,
                   lResult>>

\* expand
Expand ==
    /\ pc = "expand"
    /\ expandResult' = expand(parseResult.v)
    /\ pc' = "done"
    /\ UNCHANGED <<content, testFragment, stack, iter, tokVars, tokResult, parseResult, libVars,
                   lResult>>

Next == New \/ TokStep \/ TokFinish \/ Parse \/ Expand

Spec == Init /\ [][Next]_vars

(***************************************************************************)
(* Properties.                                                             *)
(***************************************************************************)
RECURSIVE NodeList(_)
\* the nodes of a tree, the root first
NodeList(n) ==
    LET opt(o) == IF o.some THEN NodeList(o.v) ELSE <<>> IN
    <<n>> \o
    (IF n.type = "Collection"
     THEN Concat([k \in 1..Len(n.items) |-> NodeList(n.items[k])])
     ELSE IF n.type = "BraceExpansion"
     THEN opt(n.prefix) \o opt(n.inside) \o opt(n.postfix)
     ELSE <<>>)

\* r lists p+i+s, the prefix alternatives slowest and the postfix
\* alternatives fastest
IsProductOf(r, prefixes, insides, postfixes) ==
    /\ Len(r) = Len(prefixes) * Len(insides) * Len(postfixes)
    /\ \A a \in 1..Len(prefixes), b \in 1..Len(insides), c \in 1..Len(postfixes) :
           r[((a - 1) * Len(insides) + (b - 1)) * Len(postfixes) + c]
               = prefixes[a] \o insides[b] \o postfixes[c]

\* C1: expand of a BraceExpansion node is the product of the expansions of
\* its prefix, inside and postfix (an absent one counting as [""]), prefix
\* outermost and postfix innermost, for the root and for every nested
\* BraceExpansion; and "A{B,C}D{13..15}" gives ABD13 ... ACD15 in this order.
C1_PrefixMajorProduct ==
    /\ (pc = "done" /\ expandResult.ok) =>
           LET nodes == NodeList(parseResult.v) IN
           \A k \in 1..Len(nodes) :
               nodes[k].type = "BraceExpansion" =>
                   IsProductOf(IF k = 1 THEN expandResult.v ELSE expand(nodes[k]).v,
                               ExpandOption(nodes[k].prefix).v,
                               ExpandOption(nodes[k].inside).v,
                               ExpandOption(nodes[k].postfix).v)
    /\ (pc = "done" /\ content = ExSimpleExpansion) =>
           /\ tokResult = "Ok"
           /\ parseResult.ok
           /\ expandResult = Ok(<<<<"A", "B", "D", "1", "3">>, <<"A", "B", "D", "1", "4">>, <<"A", "B", "D", "1", "5">>, <<"A", "C", "D", "1", "3">>, <<"A", "C", "D", "1", "4">>, <<"A", "C", "D", "1", "5">>>>)

\* expand has returned a product whose three factors all hold several
\* alternatives
C1_Witness ==
    /\ pc = "done"
    /\ expandResult.ok
    /\ Len(ExpandOption(parseResult.v.prefix).v) > 1
    /\ Len(ExpandOption(parseResult.v.inside).v) > 2
    /\ Len(ExpandOption(parseResult.v.postfix).v) > 1
    /\ Len(expandResult.v) > 11

\* what a pattern P{I1,...,In}S denotes: for each item in order, each of its
\* expansions between P and S
ItemExpansions(item) ==
    IF item.alts = <<>> THEN <<item.pre>>
    ELSE [j \in 1..Len(item.alts) |-> item.pre \o item.alts[j] \o item.post]
PatternExpansions(pat) ==
    Concat([k \in 1..Len(pat.items) |->
               [j \in 1..Len(ItemExpansions(pat.items[k])) |->
                   pat.P \o ItemExpansions(pat.items[k])[j] \o pat.S]])
PatternTable ==
    {[input |-> RenderPattern(pat), n |-> Len(pat.items),
      nested |-> \E k \in 1..Len(pat.items) : pat.items[k].alts # <<>>,
      expected |-> PatternExpansions(pat)] : pat \in Patterns}

\* the pipeline ran to its end on the pattern e and returned what e denotes
YieldsPattern(e) ==
    /\ tokResult = "Ok"
    /\ parseResult.ok
    /\ expandResult = Ok(e.expected)

\* C2: tokenize, parse and expand on P{I1,...,In}S, the items literals or
\* literals wrapping a nested brace group, give for each item in order every
\* expansion of the item between P and S; "A{B,C{D,E}F,G}H" gives ABH, ACDFH,
\* ACEFH, AGH and "{a,b,c}" gives a, b, c.
C2_PatternExpansion ==
    pc = "done" =>
        /\ \A e \in PatternTable : e.input = content => YieldsPattern(e)
        /\ content = ExNested =>
               YieldsPattern([expected |-> <<<<"A", "B", "H">>, <<"A", "C", "D", "F", "H">>, <<"A", "C", "E", "F", "H">>, <<"A", "G", "H">>>>])
        /\ content = ExABC =>
               YieldsPattern([expected |-> <<<<"a">>, <<"b">>, <<"c">>>>])

\* C2 without its failing case: with two or more items, or with no nested
\* group, the pattern yields what it denotes (a body that is one item
\* wrapping a nested group is rejected by Parser::collection)
C2_SeveralItems ==
    pc = "done" =>
        \A e \in PatternTable :
            (e.input = content /\ (e.n >= 2 \/ ~e.nested)) => YieldsPattern(e)

\* the integer a digit string writes, leading zeros allowed
RECURSIVE Pow10(_)
Pow10(k) == IF k = 0 THEN 1 ELSE 10 * Pow10(k - 1)
RECURSIVE NatOf(_)
NatOf(s) ==
    IF s = <<>> THEN 0
    ELSE DigitValue(Head(s)) * Pow10(Len(s) - 1) + NatOf(Tail(s))

\* s is the decimal string of v: its digits write v and it has no leading zero
IsDecimalOf(s, v) ==
    /\ s # <<>>
    /\ \A k \in 1..Len(s) : IsDigit(s[k])
    /\ Len(s) > 1 => s[1] # "0"
    /\ NatOf(s) = v

AllDigits(s) == s # <<>> /\ \A k \in 1..Len(s) : IsDigit(s[k])

\* the place d of the ".." when s is "{m..n}" for digit strings m and n, else 0
RangeSplit(s) ==
    IF Len(s) >= 6 /\ s[1] = "{" /\ s[Len(s)] = "}"
       /\ \E d \in 3..(Len(s) - 3) :
              /\ s[d] = "." /\ s[d + 1] = "."
              /\ AllDigits(SubSeq(s, 2, d - 1))
              /\ AllDigits(SubSeq(s, d + 2, Len(s) - 1))
    THEN CHOOSE d \in 3..(Len(s) - 3) : s[d] = "."
    ELSE 0

\* C3: on "{m..n}" with m and n digit strings the body parses to
\* Range{from: m, to: n}, and expand gives the decimal strings of the integers
\* m, m+1, ..., n in this order: none of them, without an error, when m > n.
C3_RangeExpansion ==
    (pc = "done" /\ RangeSplit(content) # 0) =>
        LET d == RangeSplit(content)
            m == SubSeq(content, 2, d - 1)
            n == SubSeq(content, d + 2, Len(content) - 1)
        IN  /\ tokResult = "Ok"
            /\ parseResult = Ok(BraceExpansionNode(None, Some(RangeNode(m, n)), None))
            /\ expandResult.ok
            /\ Len(expandResult.v) =
                   (IF NatOf(m) > NatOf(n) THEN 0 ELSE NatOf(n) - NatOf(m) + 1)
            /\ \A k \in 1..Len(expandResult.v) :
                   IsDecimalOf(expandResult.v[k], NatOf(m) + k - 1)

\* "{01..11}" has been expanded to its eleven numbers
C3_Witness ==
    /\ pc = "done"
    /\ content = <<"{", "0", "1", ".", ".", "1", "1", "}">>
    /\ expandResult.ok
    /\ Len(expandResult.v) = 11
    /\ expandResult.v[1] = <<"1">>

(***************************************************************************)
(* Escapes and braces, read off the input alone.                           *)
(***************************************************************************)
RECURSIVE SlashRun(_, _)
\* the number of backslashes that stand directly before position i
SlashRun(s, i) ==
    IF i = 0 \/ CharAt(s, i - 1) # "\\" THEN 0 ELSE 1 + SlashRun(s, i - 1)

\* position i is not escaped: an even number of backslashes runs up to it
Unescaped(s, i) == SlashRun(s, i) % 2 = 0

\* the positions below n that hold an unescaped c
UnescapedAt(s, c, n) ==
    {i \in 0..(n - 1) : i < Len(s) /\ CharAt(s, i) = c /\ Unescaped(s, i)}

UnescapedCount(s, c) == Cardinality(UnescapedAt(s, c, Len(s)))

\* an unescaped '{' with a '}' right after it
HasEmptyPair(s) ==
    \E i \in UnescapedAt(s, "{", Len(s)) : i + 1 < Len(s) /\ CharAt(s, i + 1) = "}"

\* the last character is an unescaped backslash
TrailingEscape(s) == UnescapedAt(s, "\\", Len(s)) \cap {Len(s) - 1} # {}

\* Tokenizer::tokenize has returned
Tokenized == tokResult \notin {"none", "NoContent"}

\* C4: Tokenizer::tokenize returns Ok only when the unescaped '{' are as many
\* as the unescaped '}' and at least one; without an adjacent "{}" and
\* without a trailing escape, no unescaped brace gives NoBraces and unequal
\* counts, one of them zero or not, give BracesDontMatch.
C4_BalancedBraces ==
    Tokenized =>
        LET o == UnescapedCount(content, "{")
            c == UnescapedCount(content, "}")
        IN  /\ tokResult = "Ok" => (o = c /\ o >= 1)
            /\ (~HasEmptyPair(content) /\ ~TrailingEscape(content)) =>
                   /\ (o = 0 /\ c = 0) => tokResult = "NoBraces"
                   /\ o # c => tokResult = "BracesDontMatch"
            /\ content \in {<<"{">>, <<"}">>, ExClosedTwice, ExUnclosedTwice}
                   => tokResult = "BracesDontMatch"

\* "{{A}" has been refused for its two '{' against one '}'
C4_Witness ==
    /\ pc = "done"
    /\ content = ExUnclosedTwice
    /\ count = <<2, 1>>
    /\ tokResult = "BracesDontMatch"

\* C5: an unescaped '}' right after an unescaped '{' makes
\* Tokenizer::tokenize fail with EmptyBraces, at that '}' and whatever follows
\* it or the end checks would say: "{}}" and "{{}" give EmptyBraces.
C5_EmptyBraces ==
    /\ (Tokenized /\ HasEmptyPair(content)) =>
           /\ tokResult = "EmptyBraces"
           /\ iter < Len(content) /\ CharAt(content, iter) = "}"
           /\ iter - 1 \in UnescapedAt(content, "{", Len(content))
           /\ \A i \in UnescapedAt(content, "{", iter - 1) :
                  CharAt(content, i + 1) # "}"
    /\ (Tokenized /\ content \in {<<"{", "}">>, <<"{", "}", "}">>, <<"{", "{", "}">>})
           => tokResult = "EmptyBraces"

\* "{{}" has stopped at its '}' although its counts differ
C5_Witness ==
    /\ pc = "done"
    /\ content = <<"{", "{", "}">>
    /\ tokResult = "EmptyBraces"
    /\ count = <<2, 0>>

\* C6: a scan that ends in the escape state, the last character being an
\* unescaped backslash, gives NothingToEscape whatever the counts of braces
\* are: never NoBraces or BracesDontMatch.
C6_NothingToEscape ==
    /\ (Tokenized /\ tokResult # "EmptyBraces") =>
           /\ state = "Escape" <=> TrailingEscape(content)
           /\ TrailingEscape(content) <=> tokResult = "NothingToEscape"
    /\ (Tokenized /\ content \in {<<"a", "\\">>, <<"{", "\\">>, <<"}", "}", "\\">>})
           => tokResult = "NothingToEscape"

\* "{a\" has ended in the escape state with one '{' and no '}'
C6_Witness ==
    /\ pc = "done"
    /\ content = <<"{", "a", "\\">>
    /\ state = "Escape"
    /\ count = <<1, 0>>
    /\ tokResult = "NothingToEscape"

\* a token of the map covers position i
Covers(p, i) == p <= i /\ i < p + get_length(tokens[p])

\* a cut that is being filled covers position i
CutCovers(cut, i) == cut[2] > 0 /\ cut[1] <= i /\ i < cut[1] + cut[2]

\* C7: a character after an unescaped backslash is literal text whatever it
\* is: a Text token starts at its position, the backslash is in no token, an
\* escaped brace is in neither count, and an escaped comma is in no Comma or
\* Empty token; "A{1..3}\,B{2,5}" has ",B" as one Text token.
C7_EscapedIsText ==
    /\ pc \in {"tokenize", "parse", "expand", "done"} =>
           /\ \A i \in 0..(iter - 1) :
                  ~Unescaped(content, i) =>
                      \/ text_cut[1] = i /\ text_cut[2] >= 1
                      \/ i \in DOMAIN tokens /\ tokens[i].kind = "Text"
           /\ \A b \in UnescapedAt(content, "\\", iter) :
                  /\ \A p \in DOMAIN tokens : ~Covers(p, b)
                  /\ ~CutCovers(text_cut, b)
                  /\ ~CutCovers(number_cut, b)
           /\ count = <<Cardinality(UnescapedAt(content, "{", iter)),
                        Cardinality(UnescapedAt(content, "}", iter))>>
           /\ \A i \in 0..(iter - 1) :
                  (CharAt(content, i) = "," /\ ~Unescaped(content, i)) =>
                      \A p \in DOMAIN tokens :
                          tokens[p].kind \in {"Comma", "Empty"} => ~Covers(p, i)
    /\ (Tokenized /\ content = ExEscapedComma) =>
           /\ tokResult = "Ok"
           /\ tokens[8] = Text(2)
           /\ 7 \notin DOMAIN tokens

\* "\{a{b\}c}" has been tokenized: its escaped braces start Text tokens and
\* one '{' and one '}' are counted
C7_Witness ==
    /\ pc = "done"
    /\ content = ExEscapedBraces
    /\ tokResult = "Ok"
    /\ count = <<1, 1>>
    /\ tokens[1] = Text(2)
    /\ tokens[6] = Text(2)

\* position i starts a run of unescaped commas
RunStart(s, i) ==
    /\ CharAt(s, i) = "," /\ Unescaped(s, i)
    /\ ~(i > 0 /\ CharAt(s, i - 1) = "," /\ Unescaped(s, i - 1))

\* the length of the run of commas that starts at position i
RunLength(s, i) ==
    CHOOSE k \in 1..(Len(s) - i) :
        /\ \A j \in i..(i + k - 1) : CharAt(s, j) = ","
        /\ i + k = Len(s) \/ CharAt(s, i + k) # ","

\* the unescaped '{' before position i that no unescaped '}' before i matches
Depth(s, i) ==
    Cardinality(UnescapedAt(s, "{", i)) - Cardinality(UnescapedAt(s, "}", i))

\* the token the run of k commas at position i gets
RunToken(s, i, k) ==
    IF i + k < Len(s) /\ CharAt(s, i + k) = "}" THEN Empty(k)
    ELSE IF k > 1 \/ (i > 0 /\ CharAt(s, i - 1) = "{" /\ Unescaped(s, i - 1))
    THEN Empty(k)
    ELSE Comma

\* C9: inside braces a run of k unescaped commas that starts at position i is
\* one token at i: Empty(k), with the ClosingBracket after it, when '}'
\* follows the run; otherwise Empty(k) when k > 1 or '{' is right before the
\* run; otherwise Comma.
C9_CommaRuns ==
    /\ pc \in {"tokenize", "parse", "expand", "done"} =>
           \A i \in 0..(iter - 1) :
               (RunStart(content, i) /\ Depth(content, i) > 0) =>
                   LET k == RunLength(content, i) IN
                   /\ i \in DOMAIN tokens
                   /\ tokens[i] = RunToken(content, i, k)
                   /\ \A j \in (i + 1)..(i + k - 1) : j \notin DOMAIN tokens
                   /\ (i + k < Len(content) /\ CharAt(content, i + k) = "}") =>
                          /\ i + k \in DOMAIN tokens
                          /\ tokens[i + k] = ClosingBracket
    /\ (Tokenized /\ content = ExEmptyStart) => tokens[2] = Empty(1)
    /\ (Tokenized /\ content = ExEmptyMiddle) => tokens[3] = Empty(2)
    /\ (Tokenized /\ content = ExEmptyEnd) =>
           /\ tokens[3] = Comma
           /\ tokens[5] = Empty(1)
           /\ tokens[6] = ClosingBracket

\* "A{B,C,}D" has been tokenized with its Comma and its Empty(1)
C9_Witness ==
    /\ pc = "done"
    /\ content = ExEmptyEnd
    /\ tokResult = "Ok"
    /\ tokens[3] = Comma
    /\ tokens[5] = Empty(1)

(***************************************************************************)
(* The first brace body of the token map, read off the tokens alone.  a is *)
(* the position of the first OpeningBracket.                               *)
(***************************************************************************)
Kinds(K) == {p \in DOMAIN tokens : tokens[p].kind \in K}

\* the position of the first OpeningBracket (there is one)
FirstOpen ==
    CHOOSE p \in Kinds({"OpeningBracket"}) :
        \A q \in Kinds({"OpeningBracket"}) : p <= q

\* the brackets open before position p, counted from a
Balance(a, p) ==
    Cardinality({q \in Kinds({"OpeningBracket"}) : a <= q /\ q < p})
        - Cardinality({q \in Kinds({"ClosingBracket"}) : a <= q /\ q < p})

\* the tokens of the first brace body, its two brackets left out
Body(a) ==
    {p \in DOMAIN tokens :
        /\ p > a
        /\ \A q \in DOMAIN tokens : (a < q /\ q <= p) => Balance(a, q) >= 1
        /\ ~(Balance(a, p) = 1 /\ tokens[p].kind = "ClosingBracket")}

\* the Empty and Comma tokens of the body that are in no nested pair
TopSeparators(a) ==
    {p \in Body(a) : Balance(a, p) = 1 /\ tokens[p].kind \in {"Empty", "Comma"}}

TopEmpties(a) == {p \in TopSeparators(a) : tokens[p].kind = "Empty"}

\* the items written between separators, by their first token: a token of
\* the body that is no separator and that no such token directly precedes
WrittenItems(a) ==
    LET body == Body(a)
        seps == TopSeparators(a)
        written == body \ seps
    IN  {p \in written :
            \A q \in written :
                q < p => \E r \in seps : q < r /\ r < p}

RECURSIVE SumOfLengths(_)
SumOfLengths(S) ==
    IF S = {} THEN 0
    ELSE LET p == CHOOSE x \in S : TRUE
         IN  tokens[p].l + SumOfLengths(S \ {p})

\* the items of the node a brace body parsed to
ItemsOf(node) == IF node.type = "Collection" THEN node.items ELSE <<node>>

EmptyItems(items) == {j \in 1..Len(items) : items[j] = TextNode(<<>>)}

\* Parser::parse has returned a tree whose first brace body is parsed
BodyParsed ==
    /\ content # <<>>
    /\ pc \in {"expand", "done"}
    /\ parseResult.ok
    /\ parseResult.v.inside.some

\* C10 as stated: an Empty(n) token at the top level of a brace body makes
\* Parser::collection produce exactly n empty Text items.
C10_EmptyGivesN ==
    BodyParsed =>
        Cardinality(EmptyItems(ItemsOf(parseResult.v.inside.v)))
            = SumOfLengths(TopEmpties(FirstOpen))

\* C10: an Empty(n) token at the top level of a brace body makes
\* Parser::collection produce exactly one empty Text item, whatever n is, and
\* ends the item before it: the body has one item for each top-level Empty
\* and one for each item written between the separators.
C10_EmptyGivesOne ==
    BodyParsed =>
        LET items == ItemsOf(parseResult.v.inside.v)
            empties == TopEmpties(FirstOpen)
        IN  /\ Cardinality(EmptyItems(items)) = Cardinality(empties)
            /\ Len(items) = Cardinality(empties)
                                + Cardinality(WrittenItems(FirstOpen))

\* "{a,,,b}" has been parsed: its Empty(3) is one empty item between a and b
C10_Witness ==
    /\ BodyParsed
    /\ content = ExEmptyThree
    /\ tokens[2] = Empty(3)
    /\ parseResult.v.inside.v =
           CollectionNode(<<TextNode(<<"a">>), TextNode(<<>>), TextNode(<<"b">>)>>)

(***************************************************************************)
(* tokenize (lib.rs): the tokenizer of the crate root, a Vec of tokens.    *)
(* w holds its locals: is_escape, buffers, count, tokens.                  *)
(***************************************************************************)
\* Token
Token_OBra == [kind |-> "OBra", s |-> <<>>]
Token_CBra == [kind |-> "CBra", s |-> <<>>]
Token_Comma == [kind |-> "Comma", s |-> <<>>]
Token_Range == [kind |-> "Range", s |-> <<>>]
Token_Text(s) == [kind |-> "Text", s |-> s]
Token_Number(s) == [kind |-> "Number", s |-> s]

LibSelf ==
    [is_escape |-> is_escape, buffers |-> buffers, count |-> lcount,
     tokens |-> ltokens]

\* "if !buffers.0.is_empty()": push the text buffer and clear it
flush_text(w) ==
    IF w.buffers[1] # <<>>
    THEN [w EXCEPT !.tokens = Append(w.tokens, Token_Text(w.buffers[1])),
                   !.buffers = << <<>>, w.buffers[2] >>]
    ELSE w

\* "if !buffers.1.is_empty()": push the number buffer and clear it
flush_number(w) ==
    IF w.buffers[2] # <<>>
    THEN [w EXCEPT !.tokens = Append(w.tokens, Token_Number(w.buffers[2])),
                   !.buffers = << w.buffers[1], <<>> >>]
    ELSE w

\* the closure tokenize_buffers of tokenize
lib_tokenize_buffers(w) == flush_number(flush_text(w))

\* buffers.0.push(c)
push_text(w, c) == [w EXCEPT !.buffers = <<Append(w.buffers[1], c), w.buffers[2]>>]

\* the arm ('{' | '}' | ',', _); its arm "_ => Unpredicted" is never taken
BraceArm(w, c) ==
    LET f == lib_tokenize_buffers(w) IN
    IF c = "{"
    THEN [f EXCEPT !.count = <<f.count[1] + 1, f.count[2]>>,
                   !.tokens = Append(f.tokens, Token_OBra)]
    ELSE IF c = "}"
    THEN [f EXCEPT !.count = <<f.count[1], f.count[2] + 1>>,
                   !.tokens = Append(f.tokens, Token_CBra)]
    ELSE [f EXCEPT !.tokens = Append(f.tokens, Token_Comma)]

\* one iteration of the while loop of tokenize: the match on (c, is_escape),
\* its arms in source order; the result is <<locals, position of iter>>
LibScan(w, s, i) ==
    LET c == CharAt(s, i) IN
    IF w.is_escape
    THEN <<[w EXCEPT !.buffers = <<Append(w.buffers[1], c), <<>> >>,
                     !.is_escape = FALSE], i + 1>>
    ELSE IF c = "\\" THEN <<[w EXCEPT !.is_escape = TRUE], i + 1>>
    ELSE IF c \in {"{", "}", ","} THEN <<BraceArm(w, c), i + 1>>
    ELSE IF c = "."
    THEN IF i + 1 < Len(s) /\ CharAt(s, i + 1) = "."
         THEN LET f == lib_tokenize_buffers(w) IN
              <<[f EXCEPT !.tokens = Append(f.tokens, Token_Range)], i + 2>>
         ELSE <<push_text(w, c), i + 1>>
    ELSE IF IsDigit(c)
    THEN LET f == flush_text(w) IN
         <<[f EXCEPT !.buffers = <<f.buffers[1], Append(f.buffers[2], c)>>], i + 1>>
    ELSE <<push_text(flush_number(w), c), i + 1>>

\* "match count" with a count of zero on one side taken for a mismatch
count_match_NoFormat(cnt) ==
    IF cnt = <<0, 0>> THEN "NoBraces"
    ELSE IF cnt[1] # cnt[2] THEN "BraceMismatch"
    ELSE "Ok"

\* "match count" after the loop of tokenize
count_match(cnt) ==
    IF cnt = <<0, 0>> THEN "NoBraces"
    ELSE IF cnt[1] = 0 \/ cnt[2] = 0 THEN "FormatNotSupported"
    ELSE IF cnt[1] # cnt[2] THEN "BraceMismatch"
    ELSE "Ok"

SetLib(w) ==
    /\ is_escape' = w.is_escape
    /\ buffers' = w.buffers
    /\ lcount' = w.count
    /\ ltokens' = w.tokens

LibInit ==
    /\ InitFields
    /\ content \in Inputs
    /\ pc = "libnew"
    /\ parseResult = Err("none", NoPos)

\* tokenize: the check of the empty content and the locals
LibNew ==
    /\ pc = "libnew"
    /\ IF content = <<>>
       THEN /\ lResult' = "EmptyContent"
            /\ pc' = "libdone"
       ELSE /\ lResult' = lResult
            /\ pc' = "lib"
    /\ SetLib([is_escape |-> FALSE, buffers |-> << <<>>, <<>> >>,
               count |-> <<0, 0>>, tokens |-> <<>>])
    /\ liter' = 0
    /\ UNCHANGED <<content, testFragment, stack, iter, tokVars, tokResult, parseResult, expandResult>>

\* tokenize: one iteration of the while loop
LibStep ==
    /\ pc = "lib"
    /\ liter < Len(content)
    /\ LET r == LibScan(LibSelf, content, liter) IN
       /\ SetLib(r[1])
       /\ liter' = r[2]
    /\ UNCHANGED <<content, testFragment, stack, pc, iter, tokVars, tokResult, parseResult,
                   expandResult, lResult>>

\* tokenize: after the loop
LibFinish ==
    /\ pc = "lib"
    /\ liter >= Len(content)
    /\ lResult' = count_match(lcount)
    /\ SetLib(IF count_match(lcount) = "Ok"
              THEN lib_tokenize_buffers(LibSelf) ELSE LibSelf)
    /\ pc' = "libdone"
    /\ UNCHANGED <<content, testFragment, stack, iter, liter, tokVars, tokResult, parseResult,
                   expandResult>>

LibNext == LibNew \/ LibStep \/ LibFinish

LibSpec == LibInit /\ [][LibNext]_vars

\* what the counts o of unescaped '{' and c of unescaped '}' stand for
Classify(o, c) ==
    IF o = 0 /\ c = 0 THEN "NoBraces"
    ELSE IF (o = 0) # (c = 0) THEN "FormatNotSupported"
    ELSE IF o # c THEN "BraceMismatch"
    ELSE "Ok"

\* C8: tokenize of lib.rs gives EmptyContent on the empty string and
\* otherwise goes by the counts of unescaped braces: both zero NoBraces, one
\* of them zero FormatNotSupported, both non-zero and unequal BraceMismatch,
\* equal and non-zero Ok.
C8_LibClassifies ==
    /\ pc = "libdone" =>
           IF content = <<>> THEN lResult = "EmptyContent"
           ELSE lResult = Classify(UnescapedCount(content, "{"),
                                   UnescapedCount(content, "}"))
    /\ (pc = "libdone" /\ content = ExFormat) => lResult = "FormatNotSupported"
    /\ (pc = "libdone" /\ content = ExMismatch) => lResult = "BraceMismatch"

\* "{a, b, c, d" has been refused for its '{' without a '}'
C8_Witness ==
    /\ pc = "libdone"
    /\ content = ExFormat
    /\ lcount = <<1, 0>>
    /\ lResult = "FormatNotSupported"

(***************************************************************************)
(* Commas and dots, read off the input alone.                              *)
(***************************************************************************)
\* position i holds an unescaped c
IsUnescaped(s, c, i) == i >= 0 /\ i < Len(s) /\ CharAt(s, i) = c /\ Unescaped(s, i)

\* an unescaped ',' that does not directly follow an opening brace or
\* another comma
LoneComma(s, i) ==
    /\ IsUnescaped(s, ",", i)
    /\ ~IsUnescaped(s, "{", i - 1)
    /\ ~IsUnescaped(s, ",", i - 1)

\* position i is in a Text token or in the text that is being cut
InText(i) ==
    \/ CutCovers(text_cut, i)
    \/ \E p \in DOMAIN tokens : tokens[p].kind = "Text" /\ Covers(p, i)

\* no '{' comes before position i, or as many '}' as '{' do
Outside(s, i) ==
    \/ UnescapedAt(s, "{", i) = {}
    \/ Cardinality(UnescapedAt(s, "{", i)) = Cardinality(UnescapedAt(s, "}", i))

Scanning == pc \in {"tokenize", "parse", "expand", "done"}

\* C11 as stated: every unescaped ',' that does not directly follow an
\* opening brace or another comma is a Comma token, wherever it stands.
C11_CommaEverywhere ==
    Scanning =>
        \A i \in 0..(iter - 1) :
            LoneComma(content, i) => (i \in DOMAIN tokens /\ tokens[i] = Comma)

\* C11: an unescaped ',' that does not directly follow an opening brace or
\* another comma is a Comma token only between braces and only when neither
\* ',' nor '}' comes right after it; before the first '{', or with as many
\* '}' as '{' before it, it is a character of a Text token, and before ','
\* or '}' it is an Empty token.
C11_CommaBetweenBraces ==
    Scanning =>
        \A i \in 0..(iter - 1) :
            LoneComma(content, i) =>
                IF Outside(content, i)
                THEN /\ InText(i)
                     /\ i \in DOMAIN tokens => tokens[i].kind = "Text"
                ELSE /\ i \in DOMAIN tokens
                     /\ IF i + 1 < Len(content) /\ CharAt(content, i + 1) \in {",", "}"}
                        THEN tokens[i] = Empty(RunLength(content, i))
                        ELSE tokens[i] = Comma

\* "A{1..3},B{2,5}" has been tokenized: its comma after the first '}' is in
\* the Text ",B" and its comma between 2 and 5 is a Comma
C11_Witness ==
    /\ pc = "done"
    /\ content = ExCommaOutside
    /\ tokResult = "Ok"
    /\ tokens[7] = Text(2)
    /\ tokens[11] = Comma

\* the loop of Tokenizer::tokenize is about to read an unescaped '.' in one
\* of the lexer states S
DotMet(S) ==
    /\ pc = "tokenize"
    /\ iter < Len(content)
    /\ CharAt(content, iter) = "."
    /\ state \in S

\* what the iteration on a '.' does: a Range of two characters when a second
\* '.' follows, text otherwise
DotStep ==
    IF iter + 1 < Len(content) /\ CharAt(content, iter + 1) = "."
    THEN /\ iter \in DOMAIN tokens'
         /\ tokens'[iter] = Range
         /\ get_length(tokens'[iter]) = 2
         /\ iter' = iter + 2
    ELSE /\ iter' = iter + 1
         /\ \/ text_cut' = <<iter, 1>>
            \/ iter \in DOMAIN tokens' /\ tokens'[iter] = Text(1)

\* C12: an unescaped '.' met in any lexer state other than Text with a second
\* '.' after it gives one Range token of length 2 at the first dot, the scan
\* going on after the second dot; a single '.' there is text.
C12_RangeInAnyState ==
    [][DotMet({"None", "Number", "Comma", "Opening", "Closing"}) => DotStep]_vars

\* C12 in the two states whose arm looks ahead: None and Number
C12_RangeAfterNumber == [][DotMet({"None", "Number"}) => DotStep]_vars

\* in the states Comma, Opening and Closing a '.' starts a text cut whatever
\* follows it, and the second '.' is read next
C12_DotAfterBrace ==
    [][DotMet({"Comma", "Opening", "Closing"}) =>
           /\ text_cut' = <<iter, 1>>
           /\ iter' = iter + 1
           /\ tokens' = tokens]_vars

\* Tokenizer::tokenize and Parser::parse both succeeded
Parsed == tokResult = "Ok" /\ parseResult.ok

\* C13: the patterns of the crate documentation are supported: tokenize and
\* parse succeed on "{a{b,c}d}", "{x{1..3},y{4..6}}", "{0..9}" and
\* "{red,green,blue}", and a brace body that is a single item holding a
\* nested brace group parses to a nested expansion.
C13_DocumentedNested ==
    pc = "done" =>
        /\ content \in {ExDocNested1, ExDocNested2, ExDocRange, ExDocOptions}
               => Parsed
        /\ \A e \in PatternTable :
               (e.input = content /\ e.n = 1 /\ e.nested) =>
                   /\ Parsed
                   /\ parseResult.v.inside.some
                   /\ parseResult.v.inside.v.type = "BraceExpansion"

\* C13 for the three documented patterns that are not one nested item
C13_OtherDocumented ==
    (pc = "done" /\ content \in {ExDocNested2, ExDocRange, ExDocOptions}) => Parsed

\* on "{a{b,c}d}" Parser::parse fails at the inner '{'
C13_NestedRejected ==
    (pc = "done" /\ content = ExDocNested1) =>
        /\ tokResult = "Ok"
        /\ parseResult = Err("ExpectedText", 2)

\* Parser::parse has returned a tree for an input string
TreeReturned == content # <<>> /\ pc \in {"expand", "done"} /\ parseResult.ok

\* the kinds of node that stand in a segment of the node n
SegmentIn(o, kinds) == o.some => o.v.type \in kinds

\* C14 as stated: in every tree of Parser::parse the inside of a
\* BraceExpansion node is a Collection or a Range and never a Text; the
\* prefix is a Text and the postfix a Text or a BraceExpansion.
C14_InsideNeverText ==
    TreeReturned =>
        LET nodes == NodeList(parseResult.v) IN
        \A k \in 1..Len(nodes) :
            nodes[k].type = "BraceExpansion" =>
                /\ SegmentIn(nodes[k].inside, {"Collection", "Range"})
                /\ SegmentIn(nodes[k].prefix, {"Text"})
                /\ SegmentIn(nodes[k].postfix, {"Text", "BraceExpansion"})

\* C14: in every tree of Parser::parse the root is a BraceExpansion, and the
\* inside of a BraceExpansion node is a Collection, a Range or, for a body of
\* one item without a range operator, a Text; the prefix is a Text and the
\* postfix a Text or a BraceExpansion.
C14_SegmentKinds ==
    TreeReturned =>
        LET nodes == NodeList(parseResult.v) IN
        /\ parseResult.v.type = "BraceExpansion"
        /\ \A k \in 1..Len(nodes) :
               nodes[k].type = "BraceExpansion" =>
                   /\ SegmentIn(nodes[k].inside, {"Collection", "Range", "Text"})
                   /\ SegmentIn(nodes[k].prefix, {"Text"})
                   /\ SegmentIn(nodes[k].postfix, {"Text", "BraceExpansion"})

\* "a{a}" has been parsed: a Text prefix and, the body being one item, a
\* Text inside
C14_Witness ==
    /\ TreeReturned
    /\ content = <<"a", "{", "a", "}">>
    /\ parseResult.v.prefix = Some(TextNode(<<"a">>))
    /\ parseResult.v.inside = Some(TextNode(<<"a">>))
    /\ parseResult.v.postfix = None

\* the number of items the first brace body is written with
BodyItems == Cardinality(TopEmpties(FirstOpen)) + Cardinality(WrittenItems(FirstOpen))

\* the first brace body holds a Range token in no nested pair
BodyHasRange ==
    \E p \in Body(FirstOpen) : tokens[p].kind = "Range" /\ Balance(FirstOpen, p) = 1

\* C15: every Collection node of a tree of Parser::parse has at least two
\* items; a brace body of exactly one item is parsed to the node of that
\* item, a Range when it holds a range operator and a Text otherwise, and the
\* body of "{a}" is Text "a".
C15_CollectionHasTwo ==
    /\ TreeReturned =>
           LET nodes == NodeList(parseResult.v) IN
           \A k \in 1..Len(nodes) :
               nodes[k].type = "Collection" => Len(nodes[k].items) >= 2
    /\ BodyParsed =>
           LET inside == parseResult.v.inside.v IN
           IF BodyItems = 1
           THEN inside.type = (IF BodyHasRange THEN "Range" ELSE "Text")
           ELSE /\ inside.type = "Collection"
                /\ Len(inside.items) = BodyItems
    /\ (pc = "done" /\ content = <<"{", "a", "}">>) =>
           /\ Parsed
           /\ parseResult.v.inside = Some(TextNode(<<"a">>))

\* "{a}" has been parsed: its body is the Text "a" itself
C15_Witness ==
    /\ BodyParsed
    /\ content = <<"{", "a", "}">>
    /\ BodyItems = 1
    /\ parseResult.v = BraceExpansionNode(None, Some(TextNode(<<"a">>)), None)

\* C16: during Tokenizer::tokenize every insert_token call uses a position
\* greater than those of all calls before it, so no position is written
\* twice and the sorted keys of the map are the positions in call order.
C16_IncreasingInserts ==
    /\ \A j, k \in 1..Len(inserted) : j < k => inserted[j] < inserted[k]
    /\ DOMAIN tokens = {inserted[k] : k \in 1..Len(inserted)}
    /\ Cardinality(DOMAIN tokens) = Len(inserted)
    /\ SortedKeys(DOMAIN tokens) = inserted

\* "A{B,C{D,E}F,G}H" has been tokenized by fifteen inserts
C16_Witness ==
    /\ pc = "done"
    /\ content = ExNested
    /\ tokResult = "Ok"
    /\ Len(inserted) = 15
    /\ inserted[15] = 14

(***************************************************************************)
(* A run of the pipeline as a function of the input and of the order in    *)
(* which the token map hands out its keys.                                 *)
(***************************************************************************)
RECURSIVE TokenizeFrom(_, _, _)
\* Tokenizer::tokenize from position i on: the Tokenizer and the result
TokenizeFrom(t, s, i) ==
    IF i >= Len(s)
    THEN [t |-> tokenize_buffers(t), res |-> EndChecks(tokenize_buffers(t))]
    ELSE LET r == Scan(t, s, i) IN
         IF r.err # "none" THEN [t |-> t, res |-> r.err]
         ELSE TokenizeFrom(r.t, s, r.iter)

NewTokenizer ==
    [state |-> "None", text_cut |-> <<0, 0>>, number_cut |-> <<0, 0>>,
     count |-> <<0, 0>>, tokens |-> NoTokenMap, inserted |-> <<>>]

\* the outcome <<tokResult, parseResult, expandResult>> of the steps after a
\* tokenization tk, the keys taken in the order keys
OutcomeFrom(s, tk, keys) ==
    IF tk.res # "Ok" THEN <<tk.res, Err("none", NoPos), Err("none", NoPos)>>
    ELSE LET p == from_tokenizer(s, tk.t.tokens)
             r == IF p.ok THEN parse(p.v, keys) ELSE p
         IN  <<tk.res, r, IF r.ok THEN expand(r.v) ELSE Err("none", NoPos)>>

\* the outcomes of all runs on the input s
Outcomes(s) ==
    IF s = <<>> THEN {<<"NoContent", Err("none", NoPos), Err("none", NoPos)>>}
    ELSE LET tk == TokenizeFrom(NewTokenizer, s, 0) IN
         {OutcomeFrom(s, tk, keys) : keys \in KeyOrders(DOMAIN tk.t.tokens)}

\* C17: two runs of Tokenizer::new and tokenize, Parser::parse and expand on
\* the same input give the same outcome, the same error or the same strings
\* in the same order, whatever order the token map hands out its keys in.
C17_Deterministic ==
    (pc = "done" /\ tokResult # "none") =>
        Outcomes(content) = {<<tokResult, parseResult, expandResult>>}

\* "A{B,C}D{13..15}" has run to its six strings, its eleven keys having more
\* than one order
C17_Witness ==
    /\ pc = "done"
    /\ content = ExSimpleExpansion
    /\ expandResult.ok
    /\ Len(expandResult.v) = 6
    /\ Cardinality(KeyOrders(DOMAIN tokens)) > 2

(***************************************************************************)
(* Parser::new and Parser::from_tokenizer followed by Parser::parse and    *)
(* expand: the parser on the token map of a successful tokenize, and on a  *)
(* token map written by hand as in the tests of parser.rs.                 *)
(***************************************************************************)
\* the kinds of token a map written by hand is made of, each with the
\* characters it stands on
HandKinds ==
    {OpeningBracket, ClosingBracket, Comma, Range, Text(1), Number(1), Empty(1),
     Empty(2)}

HandChars(kind) ==
    IF kind = OpeningBracket THEN <<"{">>
    ELSE IF kind = ClosingBracket THEN <<"}">>
    ELSE IF kind = Range THEN <<".", ".">>
    ELSE IF kind = Text(1) THEN <<"a">>
    ELSE IF kind = Number(1) THEN <<"1">>
    ELSE IF kind = Empty(2) THEN <<",", ",">>
    ELSE <<",">>

RECURSIVE HandStart(_, _)
\* the position of the k-th token of the sequence ks of kinds
HandStart(ks, k) ==
    IF k = 1 THEN 0 ELSE HandStart(ks, k - 1) + get_length(ks[k - 1])

\* the content and the token map that the sequence ks of kinds stands for
HandParser(ks) ==
    [content |-> Concat([k \in 1..Len(ks) |-> HandChars(ks[k])]),
     tokens |-> [q \in {HandStart(ks, k) : k \in 1..Len(ks)} |->
                    ks[CHOOSE k \in 1..Len(ks) : HandStart(ks, k) = q]]]

\* a longer map written by hand: "{11..11}" with each digit a Number token
\* of its own, the case the Number arm of Parser::range is written for
HandSplitNumbers ==
    <<OpeningBracket, Number(1), Number(1), Range, Number(1), Number(1),
      ClosingBracket>>

HandParsers ==
    {HandParser(ks) :
        ks \in UNION {[1..n -> HandKinds] : n \in 0..MaxTokens}
                \cup {HandSplitNumbers}}

\* the content and the token map of every input that tokenize accepts
TokenizedParsers ==
    {[content |-> s, tokens |-> TokenizeFrom(NewTokenizer, s, 0).t.tokens] :
        s \in {x \in Inputs \ {<<>>} : TokenizeFrom(NewTokenizer, x, 0).res = "Ok"}}

\* Parser::new
new(s, toks) ==
    IF s = <<>> THEN Err("NoContent", NoPos)
    ELSE IF DOMAIN toks = {} THEN Err("NoTokens", NoPos)
    ELSE Ok([content |-> s, tokens |-> toks])

ParserInit ==
    /\ \E x \in HandParsers \cup TokenizedParsers :
           /\ content = x.content
           /\ tokens = x.tokens
    /\ pc = "pnew"
    /\ iter = 0
    /\ state = "None"
    /\ text_cut = <<0, 0>>
    /\ number_cut = <<0, 0>>
    /\ count = <<0, 0>>
    /\ inserted = <<>>
    /\ tokResult = "none"
    /\ parseResult = Err("none", NoPos)
    /\ expandResult = Err("none", NoPos)
    /\ is_escape = FALSE
    /\ buffers = << <<>>, <<>> >>
    /\ liter = 0
    /\ lcount = <<0, 0>>
    /\ ltokens = <<>>
    /\ lResult = "none"
    /\ testFragment = <<>>
    /\ stack = <<>>

\* Parser::new (Parser::from_tokenizer makes the same check of the tokens)
ParserNew ==
    /\ pc = "pnew"
    /\ IF new(content, tokens).ok
       THEN /\ pc' = "pparse"
            /\ parseResult' = parseResult
       ELSE /\ pc' = "done"
            /\ parseResult' = new(content, tokens)
    /\ UNCHANGED <<content, testFragment, stack, iter, tokVars, tokResult, expandResult, libVars,
                   lResult>>

\* Parser::parse
ParserParse ==
    /\ pc = "pparse"
    /\ \E keys \in KeyOrders(DOMAIN tokens) :
           LET r == parse(new(content, tokens).v, keys) IN
           /\ parseResult' = r
           /\ pc' = IF r.ok THEN "expand" ELSE "done"
    /\ UNCHANGED <<content, testFragment, stack, iter, tokVars, tokResult, expandResult, libVars,
                   lResult>>

\* the fragments a test hands to a method of the Parser: runs of consecutive
\* tokens of the map, as in test_simple_range
TestFragments(S) ==
    LET a == SortedKeys(S) IN
    {SubSeq(a, i, j) : i \in 1..Len(a), j \in 1..Len(a)} \ {<<>>}

\* Parser::range called on a fragment, as test_simple_range calls it
ParserRange ==
    /\ pc = "pparse"
    /\ \E f \in TestFragments(DOMAIN tokens) :
           /\ testFragment' = f
           /\ parseResult' = range(new(content, tokens).v, f)
    /\ pc' = "ranged"
    /\ UNCHANGED <<content, stack, iter, tokVars, tokResult, expandResult, libVars,
                   lResult>>

ParserNext == ParserNew \/ ParserParse \/ ParserRange \/ Expand

ParserSpec == ParserInit /\ [][ParserNext]_vars

(***************************************************************************)
(* Parser::seperate on every fragment it is called with                    *)
(***************************************************************************)
RECURSIVE SeperateCalls(_, _)
RECURSIVE ItemCalls(_, _, _)

\* the fragments that the loop "for collection in collections" of
\* Parser::collection hands to Parser::seperate from the k-th item on
ItemCalls(p, collections, k) ==
    IF k > Len(collections) THEN {}
    ELSE LET bracket == HasBracket(p, collections[k])
             r == ItemNode(p, collections[k])
         IN  (IF bracket THEN SeperateCalls(p, collections[k]) ELSE {})
             \cup (IF r.ok THEN ItemCalls(p, collections, k + 1) ELSE {})

\* the fragments that Parser::reparse of the fragment hands to
\* Parser::seperate: the fragment, the items of its inside that hold a
\* bracket and its postfix when it holds a bracket, each as far as the
\* errors met before let the parse go
SeperateCalls(p, fragment) ==
    IF fragment = <<>> THEN {}
    ELSE {fragment} \cup
    LET seperated == seperate(p, fragment) IN
    IF ~seperated.ok THEN {}
    ELSE
    LET pre == IF seperated.v.pre.some
               THEN text(p, seperated.v.pre.v) ELSE Ok(None)
    IN
    IF ~pre.ok THEN {}
    ELSE
    LET w == IF seperated.v.ins.some
             THEN CollectionSplit(p, seperated.v.ins.v)
             ELSE [collections |-> <<>>]
        ins == IF seperated.v.ins.some
               THEN collection(p, seperated.v.ins.v) ELSE Ok(None)
    IN
    (IF Len(w.collections) >= 2 THEN ItemCalls(p, w.collections, 1) ELSE {})
    \cup (IF /\ ins.ok
             /\ seperated.v.post.some
             /\ HasBracket(p, seperated.v.post.v)
          THEN SeperateCalls(p, seperated.v.post.v) ELSE {})

\* the parser that Parser::new built from the content and the tokens
ThisParser == new(content, tokens).v

\* Parser::parse has run on the parser
ParseRan == pc \in {"expand", "done"} /\ new(content, tokens).ok

\* the fragments Parser::seperate was called with during Parser::parse
Seperated == SeperateCalls(ThisParser, SortedKeys(DOMAIN tokens))

\* the tokens of a segment, none for None
Seg(o) == IF o.some THEN o.v ELSE <<>>

\* the number of tokens of the kind among the first j tokens of the segment
KindCount(seg, j, kind) ==
    Cardinality({i \in 1..j : tokens[seg[i]].kind = kind})

\* the opening count exceeds the closing count after each of the first j
\* tokens of the segment
OpenUpTo(seg, j) ==
    \A i \in 1..j :
        KindCount(seg, i, "OpeningBracket") > KindCount(seg, i, "ClosingBracket")

\* the counts are equal at the end of the segment
ClosedAtEnd(seg) ==
    KindCount(seg, Len(seg), "OpeningBracket")
        = KindCount(seg, Len(seg), "ClosingBracket")

\* what holds of the three segments v of the fragment f whatever the claim
\* says of the end of the inside
SegmentsKept(f, v) ==
    /\ Seg(v.pre) \o Seg(v.ins) \o Seg(v.post) = f
    /\ \A i \in 1..Len(Seg(v.pre)) :
           tokens[v.pre.v[i]].kind \notin {"OpeningBracket", "ClosingBracket"}
    /\ v.ins.some => tokens[v.ins.v[1]].kind = "OpeningBracket"
    /\ (\E i \in 1..Len(f) : tokens[f[i]].kind = "OpeningBracket") => v.ins.some
    /\ \A o \in {v.pre, v.ins, v.post} : o.some => o.v # <<>>
    /\ v.pre.some \/ v.ins.some \/ v.post.some

\* C18 as written: when Parser::seperate succeeds on a fragment, prefix ++
\* inside ++ postfix is the fragment, the prefix holds no bracket, the inside
\* starts at the first OpeningBracket and ends at the ClosingBracket where the
\* counts first become equal, empty segments are None and one is Some
C18_InsideEndsAtClosing ==
    ParseRan =>
        \A f \in Seperated :
            LET r == seperate(ThisParser, f) IN
            r.ok =>
                /\ SegmentsKept(f, r.v)
                /\ r.v.ins.some =>
                       /\ OpenUpTo(r.v.ins.v, Len(r.v.ins.v) - 1)
                       /\ ClosedAtEnd(r.v.ins.v)
                       /\ tokens[r.v.ins.v[Len(r.v.ins.v)]].kind = "ClosingBracket"

\* C18 amended: the same, but the inside ends at the ClosingBracket where the
\* counts first become equal or, when an opening bracket of the fragment is
\* never matched, at the end of the fragment, and the postfix is then None
C18_InsideEndsOrRuns ==
    ParseRan =>
        \A f \in Seperated :
            LET r == seperate(ThisParser, f) IN
            r.ok =>
                /\ SegmentsKept(f, r.v)
                /\ r.v.ins.some =>
                       /\ OpenUpTo(r.v.ins.v, Len(r.v.ins.v) - 1)
                       /\ \/ /\ ClosedAtEnd(r.v.ins.v)
                             /\ tokens[r.v.ins.v[Len(r.v.ins.v)]].kind
                                    = "ClosingBracket"
                          \/ ~r.v.post.some

\* the three segments of ExNested: the prefix A, the inside from the first
\* "{" to the "}" that matches it, the postfix H
C18_Witness ==
    /\ ParseRan
    /\ content = ExNested
    /\ LET r == seperate(ThisParser, SortedKeys(DOMAIN tokens)) IN
       /\ r.ok
       /\ r.v.pre = Some(<<0>>)
       /\ r.v.ins = Some(<<1, 2, 3, 4, 5, 6, 7, 8, 9, 10, 11, 12, 13>>)
       /\ r.v.post = Some(<<14>>)

\* the index in the fragment f of its first ClosingBracket, Comma or Range
\* that no OpeningBracket precedes, 0 when there is none
FirstStray(f) ==
    LET stray == {k \in 1..Len(f) :
                     /\ tokens[f[k]].kind \in {"ClosingBracket", "Comma", "Range"}
                     /\ \A i \in 1..(k - 1) :
                            tokens[f[i]].kind # "OpeningBracket"}
    IN  IF stray = {} THEN 0
        ELSE CHOOSE k \in stray : \A i \in stray : k <= i

\* C19: on every fragment that Parser::parse hands to Parser::seperate, the
\* whole map, a postfix or a collection item, seperate fails exactly when a
\* ClosingBracket, Comma or Range comes before any OpeningBracket, with
\* ExtraClosingBracket(p) for a ClosingBracket and OpeningBracketExpected(p)
\* for a Comma or Range, p being the position of the first such token
C19_StrayBeforeOpening ==
    ParseRan =>
        \A f \in Seperated :
            LET k == FirstStray(f) IN
            IF k = 0 THEN seperate(ThisParser, f).ok
            ELSE seperate(ThisParser, f) =
                     Err(IF tokens[f[k]].kind = "ClosingBracket"
                         THEN "ExtraClosingBracket"
                         ELSE "OpeningBracketExpected", f[k])

\* "1..3{a,b}" fails with OpeningBracketExpected(1), the position of its Range
C19_Witness ==
    /\ pc = "done"
    /\ content = ExRangeBeforeBrace
    /\ FirstStray(SortedKeys(DOMAIN tokens)) = 2
    /\ parseResult = Err("OpeningBracketExpected", 1)

(***************************************************************************)
(* Parser::collection on every brace body it is called with                *)
(***************************************************************************)
\* the brace bodies that Parser::reparse hands to Parser::collection during
\* Parser::parse: the inside of each fragment whose prefix is a text
CollectionCalls ==
    {seperate(ThisParser, f).v.ins.v :
        f \in {g \in Seperated :
                  LET s == seperate(ThisParser, g) IN
                  /\ s.ok
                  /\ s.v.ins.some
                  /\ s.v.pre.some => text(ThisParser, s.v.pre.v).ok}}

\* the opening count less the closing count before the i-th token of body b
DepthBefore(b, i) ==
    KindCount(b, i - 1, "OpeningBracket") - KindCount(b, i - 1, "ClosingBracket")

\* the positions of the Comma and Empty tokens at the top level of body b
SplitPositions(b) ==
    {b[i] : i \in {j \in 1..Len(b) :
                      /\ tokens[b[j]].kind \in {"Comma", "Empty"}
                      /\ DepthBefore(b, j) = 1}}

\* the positions of body b that belong to an item: all but the opening
\* bracket of the body, the closing bracket that matches it and the Comma
\* tokens at the top level
ItemPositions(b) ==
    {b[i] : i \in {j \in 1..Len(b) :
        /\ ~(/\ tokens[b[j]].kind = "OpeningBracket"
             /\ KindCount(b, j - 1, "OpeningBracket") = 0)
        /\ ~(/\ tokens[b[j]].kind = "ClosingBracket"
             /\ DepthBefore(b, j) = 1)
        /\ ~(/\ tokens[b[j]].kind = "Comma"
             /\ DepthBefore(b, j) = 1)}}

\* the items c are the tokens of body b in their order, cut at the top-level
\* Comma and Empty tokens and nowhere else
SplitAtTop(b, c) ==
    /\ Concat(c) = SortedKeys(ItemPositions(b))
    /\ \A k \in 1..Len(c) :
           /\ c[k] # <<>>
           /\ \A j \in 1..(Len(c[k]) - 1) :
                  SplitPositions(b) \cap (c[k][j]..c[k][j + 1]) = {}
    /\ \A k \in 1..(Len(c) - 1) :
           SplitPositions(b) \cap (c[k][Len(c[k])]..c[k + 1][1]) # {}

\* C20: Parser::collection splits a brace body into items only at the Comma
\* and Empty tokens of its top level, keeps the order of the items, makes of
\* two or more items a Collection whose item is a BraceExpansion, by reparse,
\* when it holds a bracket and a Text otherwise, and fails with
\* NothingInBraces at the position of the opening bracket when there is no
\* item
C20_ItemsSplitAtTop ==
    ParseRan =>
        \A b \in CollectionCalls :
            LET c == CollectionSplit(ThisParser, b).collections
                r == collection(ThisParser, b)
            IN  /\ SplitAtTop(b, c)
                /\ Len(c) = 0 => r = Err("NothingInBraces", b[1])
                /\ (Len(c) >= 2 /\ r.ok) =>
                       /\ r.v.type = "Collection"
                       /\ Len(r.v.items) = Len(c)
                       /\ \A k \in 1..Len(c) :
                              IF HasBracket(ThisParser, c[k])
                              THEN /\ r.v.items[k].type = "BraceExpansion"
                                   /\ r.v.items[k] = reparse(ThisParser, c[k]).v
                              ELSE /\ r.v.items[k].type = "Text"
                                   /\ r.v.items[k] = text(ThisParser, c[k]).v

\* the body of test_complex_collection, "{,A,B{C,D}E,,,F{3..5}G,}", gives six
\* items, the nested commas staying in the third
C20_Witness ==
    /\ pc = "done"
    /\ content = ExComplexCollection
    /\ parseResult.ok
    /\ SortedKeys(DOMAIN tokens) \in CollectionCalls
    /\ Len(parseResult.v.inside.v.items) = 6
    /\ parseResult.v.inside.v.items[2] = TextNode(<<"A">>)
    /\ parseResult.v.inside.v.items[3].type = "BraceExpansion"
    /\ parseResult.v.inside.v.items[3].inside.v =
           CollectionNode(<<TextNode(<<"C">>), TextNode(<<"D">>)>>)

(***************************************************************************)
(* Parser::range on a fragment                                             *)
(***************************************************************************)
\* Parser::range has returned for the fragment testFragment
Ranged == pc = "ranged"

\* the indices of the tokens of fragment f that Parser::range refuses: a
\* bracket, a Comma, an Empty, a Text, and a Range that no Number precedes
\* or that another Range precedes
Refused(f) ==
    {k \in 1..Len(f) :
        \/ tokens[f[k]].kind \in
               {"OpeningBracket", "ClosingBracket", "Comma", "Empty", "Text"}
        \/ /\ tokens[f[k]].kind = "Range"
           /\ \/ \A i \in 1..(k - 1) : tokens[f[i]].kind # "Number"
              \/ \E i \in 1..(k - 1) : tokens[f[i]].kind = "Range"}

\* the error of Parser::range for the k-th token of fragment f
RefusedAs(f, k) ==
    LET kind == tokens[f[k]].kind IN
    IF kind = "OpeningBracket" THEN "ExtraOpeningBracket"
    ELSE IF kind = "ClosingBracket" THEN "ExtraClosingBracket"
    ELSE IF kind \in {"Comma", "Empty"} THEN "NoCommaInRange"
    ELSE IF kind = "Text" THEN "NoTextInRange"
    ELSE IF \E i \in 1..(k - 1) : tokens[f[i]].kind = "Range" THEN "ExtraRange"
    ELSE "StartLimitExpected"

\* the index of the Range token of fragment f, 0 when it has none
OperatorIn(f) ==
    IF \E k \in 1..Len(f) : tokens[f[k]].kind = "Range"
    THEN CHOOSE k \in 1..Len(f) : tokens[f[k]].kind = "Range"
    ELSE 0

\* the characters of the Number tokens of f at the indices from..to, in order
Limit(f, from, to) ==
    Concat([k \in 1..(to - from + 1) |->
               SubSeq(content, f[from + k - 1] + 1,
                      f[from + k - 1] + tokens[f[from + k - 1]].l)])

\* C21: Parser::range fails at the first token of the fragment that is a
\* bracket (ExtraOpeningBracket, ExtraClosingBracket), a Comma or Empty
\* (NoCommaInRange), a Text (NoTextInRange), a Range before any Number
\* (StartLimitExpected) or a second Range (ExtraRange), with the position of
\* that token; else with EndLimitExpected at the position of the operator
\* plus two when no Number follows the operator; else it returns the Range
\* of the Number tokens before and after the operator, each side
\* concatenated, non-empty and all digits
C21_RangeLimits ==
    Ranged =>
        LET f == testFragment
            bad == Refused(f)
            op == OperatorIn(f)
        IN  IF bad # {}
            THEN LET k == CHOOSE i \in bad : \A j \in bad : i <= j IN
                 parseResult = Err(RefusedAs(f, k), f[k])
            ELSE IF op = 0
            THEN parseResult = Err("EndLimitExpected", 0)
            ELSE IF op = Len(f)
            THEN parseResult = Err("EndLimitExpected", f[op] + 2)
            ELSE /\ parseResult =
                        Ok(RangeNode(Limit(f, 1, op - 1), Limit(f, op + 1, Len(f))))
                 /\ parseResult.v.from # <<>>
                 /\ parseResult.v.to # <<>>
                 /\ AllDigits(parseResult.v.from)
                 /\ AllDigits(parseResult.v.to)

\* test_simple_range: on "{3..5}" the fragment [1, 2] has no upper bound and
\* fails with EndLimitExpected(4)
C21_Witness ==
    /\ Ranged
    /\ content = ExRange35
    /\ testFragment = <<1, 2>>
    /\ parseResult = Err("EndLimitExpected", 4)

(***************************************************************************)
(* Dots in a text and after a number                                       *)
(***************************************************************************)
\* the token map written as a function from the listed positions
MapOf(ps, ks) == [q \in {ps[k] : k \in 1..Len(ps)} |->
                     ks[CHOOSE k \in 1..Len(ps) : ps[k] = q]]

\* the '.' met in the state Text lengthens the text cut by one and leaves
\* the token map alone
DotExtendsText ==
    DotMet({"Text"}) =>
        /\ tokens' = tokens
        /\ text_cut' = <<text_cut[1], text_cut[2] + 1>>
        /\ state' = "Text"
        /\ iter' = iter + 1

\* the single '.' met in the state Number closes the Number token of the
\* digit run and starts a text at the dot
DotClosesNumber ==
    (/\ DotMet({"Number"})
     /\ ~(iter + 1 < Len(content) /\ CharAt(content, iter + 1) = ".")) =>
        /\ number_cut[2] > 0
        /\ number_cut[1] \in DOMAIN tokens'
        /\ tokens'[number_cut[1]] = Number(number_cut[2])
        /\ number_cut[1] + number_cut[2] = iter
        /\ iter' = iter + 1
        /\ \/ text_cut' = <<iter, 1>> /\ state' = "Text"
           \/ iter \in DOMAIN tokens' /\ tokens'[iter] = Text(1)

\* C22: in Tokenizer::tokenize a '.' met while a text is accumulated only
\* extends that text, and a single '.' after a digit run closes the Number
\* token and starts a Text; "{a.b.c,d}" has one Text(5), "{a..b}" has no
\* Range token and "{1.2.3,b}" gives Number, Text, Number, Text, Number
C22_DotsInText ==
    /\ [][DotExtendsText /\ DotClosesNumber]_vars
    /\ [](Tokenized =>
            /\ content = ExDots2 =>
                   tokens = MapOf(<<0, 1, 6, 7, 8>>,
                                  <<OpeningBracket, Text(5), Comma, Text(1),
                                    ClosingBracket>>)
            /\ content = ExDotsInText =>
                   tokens = MapOf(<<0, 1, 5>>,
                                  <<OpeningBracket, Text(4), ClosingBracket>>)
            /\ content = ExDots1 =>
                   tokens = MapOf(<<0, 1, 2, 3, 4, 5, 6, 7, 8>>,
                                  <<OpeningBracket, Number(1), Text(1), Number(1),
                                    Text(1), Number(1), Comma, Text(1),
                                    ClosingBracket>>))

\* "{1.2.3,b}" tokenized: the dots at 2 and 4 are Text tokens between the
\* Number tokens
C22_Witness ==
    /\ Tokenized
    /\ content = ExDots1
    /\ tokens[1] = Number(1)
    /\ tokens[2] = Text(1)
    /\ tokens[3] = Number(1)

(***************************************************************************)
(* A range among several items                                             *)
(***************************************************************************)
\* the position of the first Range token of the item
FirstRange(item) ==
    item[CHOOSE k \in 1..Len(item) :
             /\ tokens[item[k]].kind = "Range"
             /\ \A i \in 1..(k - 1) : tokens[item[i]].kind # "Range"]

\* C23: in a brace body of two or more items, an item without a bracket that
\* holds a Range token, the items before it being parsed, makes Parser::parse
\* fail with ExpectedText at the position of the operator; a returned tree
\* has no Range among the items of a Collection; "{1..3,5}" fails with
\* ExpectedText(2) and "{{1..3},5}" parses, its first item holding the Range
C23_RangeAloneInBody ==
    ParseRan =>
        /\ \A b \in CollectionCalls :
               LET c == CollectionSplit(ThisParser, b).collections IN
               Len(c) >= 2 =>
                   \A k \in 1..Len(c) :
                       (/\ ~HasBracket(ThisParser, c[k])
                        /\ HasRange(ThisParser, c[k])
                        /\ \A j \in 1..(k - 1) : ItemNode(ThisParser, c[j]).ok)
                       => parseResult = Err("ExpectedText", FirstRange(c[k]))
        /\ parseResult.ok =>
               \A n \in 1..Len(NodeList(parseResult.v)) :
                   LET node == NodeList(parseResult.v)[n] IN
                   node.type = "Collection" =>
                       \A k \in 1..Len(node.items) : node.items[k].type # "Range"
        /\ content = ExRangeItem => parseResult = Err("ExpectedText", 2)
        /\ content = ExRangeItemBraced =>
               /\ parseResult.ok
               /\ parseResult.v.inside.v.type = "Collection"
               /\ parseResult.v.inside.v.items[1].inside =
                      Some(RangeNode(<<"1">>, <<"3">>))
               /\ parseResult.v.inside.v.items[2] = TextNode(<<"5">>)

\* "{1..3,5}": the item 1..3 of two is parsed as text and fails at its
\* operator, at 2
C23_Witness ==
    /\ pc = "done"
    /\ content = ExRangeItem
    /\ tokens[2] = Range
    /\ Len(CollectionSplit(ThisParser, SortedKeys(DOMAIN tokens)).collections) = 2
    /\ parseResult = Err("ExpectedText", 2)

(***************************************************************************)
(* lib.rs tokenize: writing the tokens back                                *)
(***************************************************************************)
\* the characters a Token of lib.rs stands for
Payload(token) ==
    IF token.kind = "OBra" THEN <<"{">>
    ELSE IF token.kind = "CBra" THEN <<"}">>
    ELSE IF token.kind = "Comma" THEN <<",">>
    ELSE IF token.kind = "Range" THEN <<".", ".">>
    ELSE token.s

\* the tokens written back in order
LibWritten(toks) == Concat([k \in 1..Len(toks) |-> Payload(toks[k])])

RECURSIVE StripFrom(_, _)
\* the characters of s from position i on without the escaping backslashes
StripFrom(s, i) ==
    IF i >= Len(s) THEN <<>>
    ELSE IF CharAt(s, i) = "\\" /\ Unescaped(s, i) THEN StripFrom(s, i + 1)
    ELSE <<CharAt(s, i)>> \o StripFrom(s, i + 1)

\* tokenize of lib.rs returned Ok
LibOk == pc = "libdone" /\ lResult = "Ok"

\* an unescaped digit of s stands directly before a backslash or before a
\* '.' that no second '.' follows
DigitThenEscapeOrDot(s) ==
    \E i \in 0..(Len(s) - 2) :
        /\ IsDigit(CharAt(s, i))
        /\ Unescaped(s, i)
        /\ \/ CharAt(s, i + 1) = "\\"
           \/ /\ CharAt(s, i + 1) = "."
              /\ ~(i + 2 < Len(s) /\ CharAt(s, i + 2) = ".")

\* C24: when tokenize of lib.rs returns Ok, the tokens written back in order
\* are the input without its escaping backslashes
C24_LibRoundTrip == LibOk => LibWritten(ltokens) = StripFrom(content, 0)

\* the round trip on the inputs where no digit run is followed by an escape
\* or by a single '.'
C24_RoundTripElsewhere ==
    (LibOk /\ ~DigitThenEscapeOrDot(content)) =>
        LibWritten(ltokens) = StripFrom(content, 0)

(***************************************************************************)
(* The tokens of the map as intervals of the input                         *)
(***************************************************************************)
\* Tokenizer::tokenize returned Ok
TokenizeOk == tokResult = "Ok"

\* the tokens of the map whose interval holds position i
TokensOver(i) == {p \in DOMAIN tokens : Covers(p, i)}

\* C25: after a successful Tokenizer::tokenize the intervals
\* [p, p + get_length(kind)) of the tokens lie within the input, no two of
\* them share a position, and they leave out exactly the escaping
\* backslashes
C25_TokensPartition ==
    TokenizeOk =>
        /\ \A p \in DOMAIN tokens :
               /\ get_length(tokens[p]) >= 1
               /\ p + get_length(tokens[p]) <= Len(content)
        /\ \A i \in 0..(Len(content) - 1) :
               Cardinality(TokensOver(i)) =
                   IF CharAt(content, i) = "\\" /\ Unescaped(content, i)
                   THEN 0 ELSE 1

\* "A{1..3}\,B{2,5}" tokenized: the backslash at 7 is in no token, the Range
\* at 3 holds the positions 3 and 4, the Text at 8 the escaped comma and B
C25_Witness ==
    /\ TokenizeOk
    /\ content = ExEscapedComma
    /\ TokensOver(7) = {}
    /\ TokensOver(3) = {3}
    /\ TokensOver(4) = {3}
    /\ TokensOver(8) = {8}
    /\ TokensOver(9) = {8}

(***************************************************************************)
(* Braces that are counted equal but not well nested                       *)
(***************************************************************************)
\* every unescaped '}' of s closes an earlier unescaped '{'
WellNested(s) ==
    \A n \in 0..Len(s) :
        Cardinality(UnescapedAt(s, "}", n)) <= Cardinality(UnescapedAt(s, "{", n))

\* C26: Tokenizer::tokenize accepts "}{", whose braces are equal in number
\* and not well nested, and on every accepted input Parser::parse returns a
\* tree only when every '}' closes an earlier '{'
C26_TreeOnlyWellNested ==
    (TokenizeOk /\ pc \in {"expand", "done"}) =>
        /\ parseResult.ok => WellNested(content)
        /\ content = <<"}", "{">> => ~parseResult.ok

\* "}{" is accepted by Tokenizer::tokenize and refused by Parser::parse
C26_Witness ==
    /\ pc = "done"
    /\ content = <<"}", "{">>
    /\ TokenizeOk
    /\ ~WellNested(content)
    /\ parseResult = Err("ExtraClosingBracket", 0)

(***************************************************************************)
(* Parser::parse call by call: each call of Parser::reparse is a step, the *)
(* fragments of the calls it makes are put on the stack.                   *)
(***************************************************************************)
RECURSIVE ItemFrames(_, _, _)
\* the items that the loop "for collection in collections" hands to
\* Parser::reparse from the k-th item on, in order, up to the first item
\* that fails
ItemFrames(p, collections, k) ==
    IF k > Len(collections) THEN <<>>
    ELSE (IF HasBracket(p, collections[k]) THEN <<collections[k]>> ELSE <<>>)
         \o (IF ItemNode(p, collections[k]).ok
             THEN ItemFrames(p, collections, k + 1) ELSE <<>>)

\* Parser::reparse handing its own fragment to the call for the postfix
PostFrames_Whole(f, postfix) == <<f>>

\* self.reparse(&postfix) in Parser::reparse of the fragment f
PostFrames(f, postfix) == <<postfix>>

\* the fragments of the calls of Parser::reparse made by Parser::reparse of
\* the fragment f, in call order
Frames(p, f) ==
    LET seperated == seperate(p, f) IN
    IF ~seperated.ok THEN <<>>
    ELSE IF seperated.v.pre.some /\ ~text(p, seperated.v.pre.v).ok THEN <<>>
    ELSE
    LET c == IF seperated.v.ins.some
             THEN CollectionSplit(p, seperated.v.ins.v).collections
             ELSE <<>>
        ins == IF seperated.v.ins.some
               THEN collection(p, seperated.v.ins.v) ELSE Ok(None)
    IN  (IF Len(c) >= 2 THEN ItemFrames(p, c, 1) ELSE <<>>)
        \o (IF /\ ins.ok
               /\ seperated.v.post.some
               /\ HasBracket(p, seperated.v.post.v)
            THEN PostFrames(f, seperated.v.post.v) ELSE <<>>)

WalkInit ==
    /\ \E x \in HandParsers \cup TokenizedParsers :
           /\ content = x.content
           /\ tokens = x.tokens
           /\ stack = IF new(x.content, x.tokens).ok
                      THEN <<SortedKeys(DOMAIN x.tokens)>> ELSE <<>>
    /\ pc = "walk"
    /\ iter = 0
    /\ state = "None"
    /\ text_cut = <<0, 0>>
    /\ number_cut = <<0, 0>>
    /\ count = <<0, 0>>
    /\ inserted = <<>>
    /\ tokResult = "none"
    /\ parseResult = Err("none", NoPos)
    /\ expandResult = Err("none", NoPos)
    /\ is_escape = FALSE
    /\ buffers = << <<>>, <<>> >>
    /\ liter = 0
    /\ lcount = <<0, 0>>
    /\ ltokens = <<>>
    /\ lResult = "none"
    /\ testFragment = <<>>

\* one call of Parser::reparse: its fragment leaves the stack, the fragments
\* of the calls it makes enter it
WalkStep ==
    /\ pc = "walk"
    /\ stack # <<>>
    /\ stack' = Frames(ThisParser, Head(stack)) \o Tail(stack)
    /\ UNCHANGED <<content, testFragment, pc, iter, tokVars, tokResult,
                   parseResult, expandResult, libVars, lResult>>

\* the last call has returned: Parser::parse returns
WalkReturn ==
    /\ pc = "walk"
    /\ stack = <<>>
    /\ parseResult' = IF new(content, tokens).ok
                      THEN parse(ThisParser, SortedKeys(DOMAIN tokens))
                      ELSE new(content, tokens)
    /\ pc' = "walked"
    /\ UNCHANGED <<content, testFragment, stack, iter, tokVars, tokResult,
                   expandResult, libVars, lResult>>

WalkNext == WalkStep \/ WalkReturn

\* the calls are made one after the other and each returns: a step that can
\* be taken is taken
WalkSpec == WalkInit /\ [][WalkNext]_vars /\ WF_vars(WalkNext)

\* every call of Parser::reparse made by the call at the top of the stack
\* has a fragment strictly shorter than that call's
ShorterFrames ==
    \A k \in 1..Len(Frames(ThisParser, Head(stack))) :
        Len(Frames(ThisParser, Head(stack))[k]) < Len(Head(stack))

RECURSIVE Size(_)
\* the number of tokens in the fragments of the stack st
Size(st) == IF st = <<>> THEN 0 ELSE Len(Head(st)) + Size(Tail(st))

\* C27: Parser::parse terminates on every token map: each call of
\* Parser::reparse made from Parser::reparse, for a postfix or for an item,
\* has a fragment strictly shorter than its caller's, so that every call
\* lowers the number of tokens still to be parsed
C27_ParseTerminates ==
    [][WalkStep => (ShorterFrames /\ Size(stack') < Size(stack))]_vars

\* Parser::parse has returned a tree for "A{B,C{D,E}F,G}H", whose third item
\* was parsed by a call of Parser::reparse from Parser::collection
C27_Witness ==
    /\ pc = "walked"
    /\ content = ExNested
    /\ stack = <<>>
    /\ parseResult.ok
    /\ Frames(ThisParser, SortedKeys(DOMAIN tokens)) = << <<4, 5, 6, 7, 8, 9, 10>> >>

(***************************************************************************)
(* The lower bound of a range                                              *)
(***************************************************************************)
\* C28: on every input that Tokenizer::tokenize accepts, the token directly
\* after an OpeningBracket is never a Range and Parser::parse never returns
\* StartLimitExpected; "{..3}" parses to the Text "..3"
C28_NoStartLimitExpected ==
    TokenizeOk =>
        /\ \A p \in DOMAIN tokens :
               (tokens[p] = OpeningBracket /\ p + 1 \in DOMAIN tokens) =>
                   tokens[p + 1] # Range
        /\ pc \in {"expand", "done"} =>
               /\ parseResult.ok \/ parseResult.err # "StartLimitExpected"
               /\ content = ExNoStartLimit =>
                      parseResult =
                          Ok(BraceExpansionNode(None,
                                 Some(TextNode(<<".", ".", "3">>)), None))

\* "{..3}" parsed: the dots after the brace are the Text(2) at 1
C28_Witness ==
    /\ pc = "done"
    /\ content = ExNoStartLimit
    /\ TokenizeOk
    /\ tokens[1] = Text(2)
    /\ parseResult.ok
    /\ parseResult.v.inside = Some(TextNode(<<".", ".", "3">>))

(***************************************************************************)
(* Tokenizer::tokenize called a second time on the same Tokenizer          *)
(***************************************************************************)
\* the second call of Tokenizer::tokenize, after a first call that returned
\* Ok: the loop and the checks run again on the fields the first call left
TokAgain ==
    /\ pc = "parse"
    /\ LET r == TokenizeFrom(Self, content, 0) IN
       /\ SetTokenizer(r.t)
       /\ tokResult' = r.res
    /\ pc' = "again"
    /\ UNCHANGED <<content, testFragment, stack, iter, parseResult,
                   expandResult, libVars, lResult>>

AgainNext == New \/ TokStep \/ TokFinish \/ TokAgain

AgainSpec == Init /\ [][AgainNext]_vars

\* the token map of the first call of Tokenizer::tokenize on the content
FirstMap == TokenizeFrom(NewTokenizer, content, 0).t.tokens

\* C29: a second call of Tokenizer::tokenize after a first that returned Ok
\* returns Ok and leaves the token map as the first call made it
C29_SecondCallSame ==
    pc = "again" => (tokResult = "Ok" /\ tokens = FirstMap)

\* the second call returns Ok whenever the first did: the counts it adds to
\* are equal
C29_SecondCallOk == pc = "again" => tokResult = "Ok"

\* the second call leaves the map alone on the inputs that begin with an
\* opening brace
C29_SameAfterBrace ==
    (pc = "again" /\ CharAt(content, 0) = "{") => tokens = FirstMap

(***************************************************************************)
(* The inside of the BraceExpansion nodes of a parsed input                *)
(***************************************************************************)
\* the BraceExpansion nodes of the tree n
Expansions(n) ==
    {NodeList(n)[k] : k \in {j \in 1..Len(NodeList(n)) :
                                NodeList(n)[j].type = "BraceExpansion"}}

\* C30: when Tokenizer::tokenize accepts the input and Parser::parse returns
\* a tree, the root is a BraceExpansion and every BraceExpansion node of the
\* tree has its inside present
C30_InsidePresent ==
    (TokenizeOk /\ pc \in {"expand", "done"} /\ parseResult.ok) =>
        /\ parseResult.v.type = "BraceExpansion"
        /\ \A n \in Expansions(parseResult.v) : n.inside.some

\* "A{B,C{D,E}F,G}H" parsed: the root and the item C{D,E}F are BraceExpansion
\* nodes, each with its inside
C30_Witness ==
    /\ pc = "done"
    /\ content = ExNested
    /\ TokenizeOk
    /\ parseResult.ok
    /\ Cardinality(Expansions(parseResult.v)) = 2
    /\ parseResult.v.inside.v.items[2].inside.some

====
